---- MODULE Spec2Model ----
(***************************************************************************)
(* Model of colima's staged command chain (package cli: ActiveCommandChain *)
(* with Add / Stage / Retry / Exec) and of the gvproxy network daemon      *)
(* (package gvproxy: run, with its acceptor goroutine and control socket). *)
(***************************************************************************)
EXTENDS Integers, Sequences, FiniteSets, TLC

(* ------------------------------ bounds --------------------------------- *)
MaxSteps == 3
MaxCount == 2
MaxClients == 2

Labels == {"", "A", "B"}
Counts == {-1, 0, MaxCount}

\* the labels and counts given to Retry
RetryInputs ==
  {[stage |-> "", count |-> c] : c \in Counts}
    \cup {[stage |-> "R", count |-> c] : c \in {0, MaxCount}}

VARIABLES
  funcs,          \* ActiveCommandChain.funcs
  lastStage,      \* ActiveCommandChain.lastStage (the stored field)
  pc,             \* position of the chain's caller: "idle", "exec", "retry"
  execFuncs,      \* a.funcs of Exec's receiver copy (the ranged slice)
  execLastStage,  \* a.lastStage of Exec's receiver copy
  idx,            \* index of the range loop in Exec
  i,              \* Retry closure: var i
  err,            \* Retry closure: named result err
  trace,          \* what the running Exec did: op/call/ret/log/sleep events
  result,         \* what the last Exec returned
  staged,         \* an earlier Exec of this chain has entered a stage
  sockFile,       \* the control-socket file exists on disk
  macAddress,     \* package variable macAddress (<<>> is nil)
  ctxDone,        \* the context given to Start is cancelled
  pcRun,          \* position of Start / run
  listener,       \* qemuListener: "none", "open", "closed"
  done,           \* the channel done (its buffer)
  selErr,         \* err received from done in the select
  branch,         \* the select case that was taken
  runResult,      \* what Start returned
  accPc,          \* position of the acceptor goroutine
  accOut,         \* the value the acceptor goroutine is about to send
  backlog,        \* clients connected to the socket and not yet accepted
  connects,       \* number of clients that connected so far
  reports,        \* number of sends on done so far
  cancelEarly,    \* ctx was cancelled while listening, before any client
  aliveResult,    \* what the last call of Alive returned
  infoMac,        \* Info().MacAddress as computed in Start
  confLease,      \* conf.DHCPStaticLeases[deviceIP] built in run
  otherListening, \* another daemon instance is listening on the same path
  otherFile,      \* the socket file that instance bound is still on disk
  macPc,          \* position of each thread inside MacAddress()
  macRet,         \* what MacAddress() last returned to each thread
  path,           \* the path P a Socket is made from
  socket,         \* a Socket value
  views,          \* its File() and Unix() views
  goos,           \* runtime.GOOS of the build that called searchDomains
  resolvConf,     \* what os.ReadFile("/etc/resolv.conf") gave
  domains,        \* what searchDomains returned
  heap,           \* the ActiveCommandChain objects Init has allocated
  handle,         \* the *ActiveCommandChain each caller holds (0: none)
  added,          \* the steps each caller appended through its pointer
  ran,            \* what each caller's last Exec invoked and returned
  guestStore,     \* the guest's key-value store: kubernetes_config, master_address
  vmIP,           \* lima.IPAddress(profile) as of now
  k8sPc,          \* the kubernetes runtime call in progress ("idle": none)
  k8sIn,          \* what that call found when it began
  k8sRet,         \* what the last kubernetes runtime call returned
  configFile,     \* the configuration file configmanager loads and saves
  startCmdArgs,   \* package variable startCmdArgs: Config and Flags
  cmd,            \* startCmd: the host it runs on, the flags that were given
  startPc,        \* position of the start command ("idle": not running)
  app,            \* the application instance behind newApp()
  startLog,       \* what the running start command has called so far
  startRet        \* what the start command returned

chainVars == <<funcs, lastStage, pc, execFuncs, execLastStage, idx, i, err,
               trace, result, staged>>

\* the threads calling MacAddress() and the Socket under conversion
\* several Active Chains made by one Named Chain
heapVars == <<heap, handle, added, ran>>

\* state of the callers of the chain and of the daemon's helpers
\* the kubernetes runtime
k8sVars == <<guestStore, vmIP, k8sPc, k8sIn, k8sRet>>

startVars == <<configFile, startCmdArgs, cmd, startPc, app, startLog, startRet>>

extVars == <<heapVars, k8sVars, startVars>>

auxVars == <<macPc, macRet, path, socket, views, goos, resolvConf, domains,
             extVars>>

\* the liveness probe, the derived addresses and a second daemon instance
probeVars == <<aliveResult, infoMac, confLease, otherListening, otherFile>>

daemonVars == <<sockFile, macAddress, ctxDone, pcRun, listener, done, selErr,
                branch, runResult, accPc, accOut, backlog, connects, reports,
                cancelEarly, probeVars, auxVars>>

vars == <<chainVars, daemonVars>>

(* ------------------------------ values --------------------------------- *)
\* a nil func() error
NilFunc == [type |-> "nil", stage |-> "", count |-> 0]
\* the closure given to Add by a caller
PlainFunc == [type |-> "plain", stage |-> "", count |-> 0]
\* the closure Retry gives to Add; it captures stage and count
RetryFunc(stage, count) == [type |-> "retry", stage |-> stage, count |-> count]

cFunc(f, s) == [f |-> f, s |-> s]

\* an error value is identified by the step whose closure produced it and by
\* the ordinal of the invocation of the wrapped function that returned it
NoErr == [step |-> 0, n |-> 0]
ErrOf(step, n) == [step |-> step, n |-> n]

\* Exec's return value: nil, a raw error, or fmt.Errorf("error at '%s': %w")
NoResult == [returned |-> FALSE, wrapped |-> FALSE, stage |-> "", err |-> NoErr]
Returned(wrapped, stage, e) ==
  [returned |-> TRUE, wrapped |-> wrapped, stage |-> stage, err |-> e]

Event(type, step, n, ok, s) ==
  [type |-> type, step |-> step, n |-> n, ok |-> ok, s |-> s]

\* a.log.Println(s, "...")
Println(tr, step, s) == Append(tr, Event("log", step, 0, TRUE, s))

\* time.Sleep(interval)
NoSleep(tr, step) == tr
Sleep(tr, step) == Append(tr, Event("sleep", step, 0, TRUE, ""))

\* the events of one type
EventsOf(tr, type) == SelectSeq(tr, LAMBDA e : e.type = type)

\* the invocations of the function wrapped by the Retry closure of a step
CallsOf(tr, step) == SelectSeq(tr, LAMBDA e : e.type = "call" /\ e.step = step)

(* ------------------------------ building ------------------------------- *)
ChainInit ==
  /\ funcs = <<>>
  /\ lastStage = ""
  /\ pc = "idle"
  /\ execFuncs = <<>>
  /\ execLastStage = ""
  /\ idx = 0
  /\ i = 0
  /\ err = NoErr
  /\ trace = <<>>
  /\ result = NoResult
  /\ staged = FALSE

execLocals == <<pc, execFuncs, execLastStage, idx, i, err, trace, result,
                staged>>

Add ==
  /\ pc = "idle"
  /\ Len(funcs) < MaxSteps
  /\ funcs' = Append(funcs, cFunc(PlainFunc, ""))
  /\ UNCHANGED <<lastStage, execLocals, daemonVars>>

\* a.funcs = append(a.funcs, cFunc{s: s})
StageStepEager(s) ==
  /\ pc = "idle"
  /\ Len(funcs) < MaxSteps
  /\ funcs' = Append(funcs, cFunc(NilFunc, s))
  /\ lastStage' = s
  /\ UNCHANGED <<execLocals, daemonVars>>
StageStep(s) ==
  /\ pc = "idle"
  /\ Len(funcs) < MaxSteps
  /\ funcs' = Append(funcs, cFunc(NilFunc, s))
  /\ UNCHANGED <<lastStage, execLocals, daemonVars>>

Stage == \E s \in Labels : StageStep(s)

\* fmt.Sprintf for a format given as its pieces, "%s" being the verb
RECURSIVE Sprintf(_, _)
Sprintf(format, a) ==
  IF format = <<>> THEN ""
  ELSE IF Head(format) # "%s" THEN Head(format) \o Sprintf(Tail(format), a)
  ELSE IF a = <<>> THEN "%!s(MISSING)" \o Sprintf(Tail(format), a)
  ELSE Head(a) \o Sprintf(Tail(format), Tail(a))

\* the formats and arguments given to Stagef
StagefInputs ==
  {[format |-> <<"%s">>, args |-> <<"A">>],
   [format |-> <<"%s", "%s">>, args |-> <<"A", "B">>],
   [format |-> <<"B">>, args |-> <<>>]}

\* f := fmt.Sprintf(format, s...); a.Stage(f)
Stagef == \E in \in StagefInputs : StageStep(Sprintf(in.format, in.args))

RetryLabelled ==
  /\ pc = "idle"
  /\ Len(funcs) < MaxSteps
  /\ \E in \in RetryInputs :
       funcs' = Append(funcs, cFunc(RetryFunc(in.stage, in.count), in.stage))
  /\ UNCHANGED <<lastStage, execLocals, daemonVars>>
Retry ==
  /\ pc = "idle"
  /\ Len(funcs) < MaxSteps
  /\ \E in \in RetryInputs :
       funcs' = Append(funcs, cFunc(RetryFunc(in.stage, in.count), ""))
  /\ UNCHANGED <<lastStage, execLocals, daemonVars>>

(* ------------------------------ Exec ----------------------------------- *)
\* Exec has a value receiver: it works on a copy of the chain
ExecBegin ==
  /\ pc = "idle"
  /\ pc' = "exec"
  /\ execFuncs' = funcs
  /\ execLastStage' = lastStage
  /\ idx' = 1
  /\ i' = 0
  /\ err' = NoErr
  /\ trace' = <<>>
  /\ result' = NoResult
  /\ staged' = (staged \/ execLastStage # "")
  /\ UNCHANGED <<funcs, lastStage, daemonVars>>

\* the error Exec returns for a failed operation
ExecErrorUntagged(ls, e) == Returned(FALSE, "", e)
ExecError(ls, e) ==
  IF ls = "" THEN Returned(FALSE, "", e) ELSE Returned(TRUE, ls, e)

\* the label a stage marker leaves in a.lastStage
EnterStageAlways(ls, s) == s
EnterStage(ls, s) == IF s # "" THEN s ELSE ls

\* a step with a nil function: a stage marker
ExecStagePointer ==
  /\ pc = "exec"
  /\ idx <= Len(execFuncs)
  /\ execFuncs[idx].f.type = "nil"
  /\ LET s == execFuncs[idx].s IN
       /\ trace' = IF s # "" THEN Println(trace, idx, s) ELSE trace
       /\ execLastStage' = EnterStage(execLastStage, s)
       /\ lastStage' = EnterStage(execLastStage, s)
  /\ idx' = idx + 1
  /\ UNCHANGED <<staged, funcs, pc, execFuncs, i, err, result, daemonVars>>
ExecStage ==
  /\ pc = "exec"
  /\ idx <= Len(execFuncs)
  /\ execFuncs[idx].f.type = "nil"
  /\ LET s == execFuncs[idx].s IN
       /\ trace' = IF s # "" THEN Println(trace, idx, s) ELSE trace
       /\ execLastStage' = EnterStage(execLastStage, s)
  /\ idx' = idx + 1
  /\ UNCHANGED <<staged, funcs, lastStage, pc, execFuncs, i, err, result, daemonVars>>

\* what Exec does with the error e returned by the operation at idx
AfterOpNoStop(e, tr) ==
  /\ trace' = tr
  /\ idx' = idx + 1
  /\ pc' = "exec"
  /\ result' = result
  /\ UNCHANGED <<staged, funcs, lastStage, execFuncs, execLastStage, daemonVars>>
AfterOp(e, tr) ==
  /\ trace' = tr
  /\ IF e = NoErr
       THEN /\ idx' = idx + 1
            /\ pc' = "exec"
            /\ result' = result
       ELSE /\ idx' = idx
            /\ pc' = "idle"
            /\ result' = ExecError(execLastStage, e)
  /\ UNCHANGED <<staged, funcs, lastStage, execFuncs, execLastStage, daemonVars>>

\* a step holding a caller's function: err := f.f()
ExecOp ==
  /\ pc = "exec"
  /\ idx <= Len(execFuncs)
  /\ execFuncs[idx].f.type = "plain"
  /\ \E ok \in BOOLEAN :
       LET e == IF ok THEN NoErr ELSE ErrOf(idx, 1)
           tr == trace \o <<Event("op", idx, 0, TRUE, ""),
                            Event("ret", idx, e.n, ok, "")>>
       IN AfterOp(e, tr)
  /\ UNCHANGED <<i, err>>

\* the range loop is over
ExecReturn ==
  /\ pc = "exec"
  /\ idx > Len(execFuncs)
  /\ pc' = "idle"
  /\ result' = Returned(FALSE, "", NoErr)
  /\ UNCHANGED <<staged, funcs, lastStage, execFuncs, execLastStage, idx, i, err, trace, daemonVars>>

(* ------------------------------ Retry closure -------------------------- *)
\* the attempt number the post statement `i, err = i+1, f(i+1)` passes: the
\* right-hand side is evaluated before i is assigned
PostAttempt(iOld) == iOld + 1

\* the loop condition `i < count && err != nil`
LoopCondInclusive(iv, count, e) == iv <= count /\ e # NoErr
LoopCond(iv, count, e) == iv < count /\ e # NoErr

\* f(n): one invocation of the function wrapped by Retry, the k-th of this step
Invoke(tr, step, n, ok) == Append(tr, Event("call", step, n, ok, ""))

\* a step holding a Retry closure: var i; err = f(i + 1)
RetryFirst ==
  /\ pc = "exec"
  /\ idx <= Len(execFuncs)
  /\ execFuncs[idx].f.type = "retry"
  /\ \E ok \in BOOLEAN :
       /\ trace' = Invoke(Append(trace, Event("op", idx, 0, TRUE, "")), idx, 0 + 1, ok)
       /\ err' = IF ok THEN NoErr ELSE ErrOf(idx, 1)
  /\ i' = 0
  /\ pc' = "retry"
  /\ UNCHANGED <<staged, funcs, lastStage, execFuncs, execLastStage, idx, result, daemonVars>>

\* one iteration: the body (log, sleep) and the post statement
RetryLoop ==
  /\ pc = "retry"
  /\ LET f == execFuncs[idx].f IN
       /\ LoopCond(i, f.count, err)
       /\ \E ok \in BOOLEAN :
            LET logged == IF f.stage # "" THEN Println(trace, idx, f.stage) ELSE trace
                slept == Sleep(logged, idx)
                k == Len(CallsOf(trace, idx)) + 1
            IN /\ trace' = Invoke(slept, idx, PostAttempt(i), ok)
               /\ err' = IF ok THEN NoErr ELSE ErrOf(idx, k)
       /\ i' = i + 1
  /\ UNCHANGED <<staged, funcs, lastStage, pc, execFuncs, execLastStage, idx, result, daemonVars>>

\* the loop condition is false: return err, back in Exec
RetryReturn ==
  /\ pc = "retry"
  /\ ~LoopCond(i, execFuncs[idx].f.count, err)
  /\ AfterOp(err, Append(trace, Event("ret", idx, err.n, err = NoErr, "")))
  /\ UNCHANGED <<i, err>>

(* ------------------------------ gvproxy daemon ------------------------- *)
\* capacity of `done := make(chan error, 1)`
DoneCap == 1

baseHWAddr == <<90, 148, 239>>

\* the leading bytes of util.SHA256Hash(daemon.Dir())
DirSum == <<97, 51, 102, 48>>

\* the package variable macAddress after a call of MacAddress()
MacAddressAppendAlways(m) == (m \o baseHWAddr) \o SubSeq(DirSum, 1, 3)
MacAddressCached(m) ==
  IF m = <<>> THEN (m \o baseHWAddr) \o SubSeq(DirSum, 1, 3) ELSE m

HexDigits == <<"0", "1", "2", "3", "4", "5", "6", "7",
               "8", "9", "a", "b", "c", "d", "e", "f">>

HexByte(b) == <<HexDigits[(b \div 16) + 1], HexDigits[(b % 16) + 1]>>

\* net.HardwareAddr.String(): two hex digits per byte, joined by colons; the
\* text is a sequence of characters
RECURSIVE String(_)
String(m) ==
  IF m = <<>> THEN <<>>
  ELSE IF Len(m) = 1 THEN HexByte(m[1])
  ELSE (HexByte(m[1]) \o <<":">>) \o String(Tail(m))

DaemonInit ==
  /\ macAddress = <<>>
  /\ ctxDone = FALSE
  /\ pcRun = "idle"
  /\ listener = "none"
  /\ done = <<>>
  /\ selErr = "none"
  /\ branch = "none"
  /\ runResult = "none"
  /\ accPc = "none"
  /\ accOut = "none"
  /\ backlog = 0
  /\ connects = 0
  /\ reports = 0
  /\ cancelEarly = FALSE
  /\ aliveResult = "none"
  /\ infoMac = <<>>
  /\ confLease = <<>>

MaxThreads == 2
Threads == 1..MaxThreads

NoViews == [file |-> "", unix |-> ""]

\* the flags of the start command, on every host, that bind a field of
\* startCmdArgs.Config
CommonFlags ==
  {"runtime", "cpu", "cpu-type", "memory", "disk", "arch", "mount-type",
   "ssh-agent", "kubernetes", "kubernetes-version", "kubernetes-ingress",
   "env", "dns"}

\* the fields of config.Config: those of the flags above, Mounts (the flag
\* --mount sets it through Flags.Mounts), the two network settings, whose
\* flags exist if util.MacOS(), and Docker, which has no flag
ConfigFields ==
  CommonFlags \cup {"mount", "network-address", "network-driver", "docker"}

\* config.Config{}
NoConfig == [f \in ConfigFields |-> IF f = "mount" THEN <<>> ELSE "zero"]

AuxInit ==
  /\ macPc = [t \in Threads |-> "idle"]
  /\ macRet = [t \in Threads |-> <<>>]
  /\ path = ""
  /\ socket = ""
  /\ views = NoViews
  /\ goos = ""
  /\ resolvConf = [ok |-> FALSE, lines |-> <<>>, content |-> ""]
  /\ domains = <<>>
  /\ heap = <<>>
  /\ handle = [c \in {"a", "b"} |-> 0]
  /\ added = [c \in {"a", "b"} |-> <<>>]
  /\ ran = [c \in {"a", "b"} |-> [ops |-> <<>>, result |-> NoResult]]
  /\ guestStore = [config |-> "", master |-> "", kubeconfig |-> "user"]
  /\ vmIP = "192.168.5.1"
  /\ k8sPc = "idle"
  /\ k8sIn = [call |-> "", running |-> FALSE, conf |-> "", ip |-> "",
              kube |-> "",
              before |-> [config |-> "", master |-> "", kubeconfig |-> "user"]]
  /\ k8sRet = [call |-> "", result |-> NoResult]
  /\ configFile = NoConfig
  /\ startCmdArgs = [Config |-> NoConfig, Mounts |-> <<>>,
                      LegacyKubernetes |-> "default", Edit |-> FALSE]
  /\ cmd = [macOS |-> FALSE, changed |-> {}]
  /\ startPc = "idle"
  /\ app = [active |-> FALSE]
  /\ startLog = <<>>
  /\ startRet = "none"

acceptorVars == <<accPc, accOut, backlog, connects, reports>>

\* gvproxyProcess.Start: info := Info(); run(ctx, info.Socket)
Start ==
  /\ pcRun = "idle"
  /\ pcRun' = "start"
  /\ macAddress' = MacAddressCached(macAddress)
  /\ infoMac' = String(macAddress')
  /\ UNCHANGED <<sockFile, ctxDone, listener, done, selErr, branch, runResult,
                 acceptorVars, cancelEarly, chainVars, auxVars, aliveResult,
                 confLease, otherListening, otherFile>>

\* run: remove a socket file left by an earlier run
RunRemoveStaleIgnoreError ==
  /\ pcRun = "start"
  /\ pcRun' = "conf"
  /\ \E ok \in BOOLEAN : sockFile' = (sockFile /\ ~ok)
  /\ otherFile' = (otherFile /\ sockFile')
  /\ UNCHANGED <<runResult, macAddress, ctxDone, listener, done, selErr, branch,
                 acceptorVars, cancelEarly, chainVars, auxVars, aliveResult,
                 infoMac, confLease, otherListening>>
RunRemoveStale ==
  /\ pcRun = "start"
  /\ IF sockFile
       THEN \E ok \in BOOLEAN :
              IF ok
                THEN /\ sockFile' = FALSE
                     /\ pcRun' = "conf"
                     /\ runResult' = runResult
                ELSE /\ sockFile' = sockFile
                     /\ pcRun' = "returned"
                     /\ runResult' = "remove_existing_err"
       ELSE /\ pcRun' = "conf"
            /\ UNCHANGED <<sockFile, runResult>>
  /\ otherFile' = (otherFile /\ sockFile')
  /\ UNCHANGED <<macAddress, ctxDone, listener, done, selErr, branch,
                 acceptorVars, cancelEarly, chainVars, auxVars, aliveResult,
                 infoMac, confLease, otherListening>>

\* run: conf := configuration(); vn, err := virtualnetwork.New(&conf)
RunConfGoesOn ==
  /\ pcRun = "conf"
  /\ macAddress' = MacAddressCached(macAddress)
  /\ confLease' = String(macAddress')
  /\ \E ok \in BOOLEAN :
       /\ pcRun' = "listen"
       /\ runResult' = IF ok THEN runResult ELSE "vn_err"
  /\ UNCHANGED <<sockFile, ctxDone, listener, done, selErr, branch,
                 acceptorVars, cancelEarly, chainVars, auxVars, aliveResult,
                 infoMac, otherListening, otherFile>>
RunConf ==
  /\ pcRun = "conf"
  /\ macAddress' = MacAddressCached(macAddress)
  /\ confLease' = String(macAddress')
  /\ \E ok \in BOOLEAN :
       IF ok
         THEN pcRun' = "listen" /\ runResult' = runResult
         ELSE pcRun' = "returned" /\ runResult' = "vn_err"
  /\ UNCHANGED <<sockFile, ctxDone, listener, done, selErr, branch,
                 acceptorVars, cancelEarly, chainVars, auxVars, aliveResult,
                 infoMac, otherListening, otherFile>>

\* run: transport.Listen(qemuSocket.Unix()); binding creates the socket file
\* and fails when the path is already taken
RunListen ==
  /\ pcRun = "listen"
  /\ \E ok \in BOOLEAN :
       IF ok /\ ~sockFile
         THEN /\ listener' = "open"
              /\ sockFile' = TRUE
              /\ pcRun' = "spawn"
              /\ runResult' = runResult
         ELSE /\ pcRun' = "returned"
              /\ runResult' = "listen_err"
              /\ UNCHANGED <<listener, sockFile>>
  /\ UNCHANGED <<macAddress, ctxDone, done, selErr, branch,
                 acceptorVars, cancelEarly, chainVars, auxVars, probeVars>>

\* run: done := make(chan error, 1); go func() {...}()
RunSpawn ==
  /\ pcRun = "spawn"
  /\ done' = <<>>
  /\ accPc' = "accept"
  /\ pcRun' = "select"
  /\ UNCHANGED <<sockFile, macAddress, ctxDone, listener, selErr, branch,
                 runResult, accOut, backlog, connects, reports, cancelEarly,
                 chainVars, auxVars, probeVars>>

\* select: case <-ctx.Done()
RunSelectCancelReturnsErr ==
  /\ pcRun = "select"
  /\ ctxDone
  /\ branch' = "cancel"
  /\ pcRun' = "returned"
  /\ runResult' = "ctx_err"
  /\ UNCHANGED <<sockFile, macAddress, ctxDone, listener, done, selErr,
                 acceptorVars, cancelEarly, chainVars, auxVars, probeVars>>
RunSelectCancelWaitsForDone ==
  /\ pcRun = "select"
  /\ ctxDone
  /\ done # <<>>
  /\ branch' = "cancel"
  /\ pcRun' = "close"
  /\ UNCHANGED <<sockFile, macAddress, ctxDone, listener, done, selErr,
                 runResult, acceptorVars, cancelEarly, chainVars, auxVars, probeVars>>
RunSelectCancel ==
  /\ pcRun = "select"
  /\ ctxDone
  /\ branch' = "cancel"
  /\ pcRun' = "close"
  /\ UNCHANGED <<sockFile, macAddress, ctxDone, listener, done, selErr,
                 runResult, acceptorVars, cancelEarly, chainVars, auxVars, probeVars>>

\* select: case err := <-done (the error is logged)
RunSelectDoneUnguarded ==
  /\ pcRun = "select"
  /\ branch' = "done"
  /\ pcRun' = "close"
  /\ UNCHANGED <<sockFile, macAddress, ctxDone, listener, done, selErr,
                 runResult, acceptorVars, cancelEarly, chainVars, auxVars, probeVars>>
RunSelectDone ==
  /\ pcRun = "select"
  /\ done # <<>>
  /\ selErr' = Head(done)
  /\ done' = Tail(done)
  /\ branch' = "done"
  /\ pcRun' = "close"
  /\ UNCHANGED <<sockFile, macAddress, ctxDone, listener, runResult,
                 acceptorVars, cancelEarly, chainVars, auxVars, probeVars>>

\* run: qemuListener.Close(); closing a unix listener unlinks its socket
\* file, an unlink failure is not reported
RunClose ==
  /\ pcRun = "close"
  /\ listener' = "closed"
  /\ \E unlinked \in BOOLEAN : sockFile' = (sockFile /\ ~unlinked)
  /\ otherFile' = (otherFile /\ sockFile')
  /\ pcRun' = "cleanup"
  /\ UNCHANGED <<macAddress, ctxDone, done, selErr, branch, runResult,
                 acceptorVars, cancelEarly, chainVars, auxVars, aliveResult,
                 infoMac, confLease, otherListening>>

\* run: if the socket file still exists, return os.Remove(...); return nil
RunCleanupNoRemove ==
  /\ pcRun = "cleanup"
  /\ runResult' = "nil"
  /\ pcRun' = "returned"
  /\ UNCHANGED <<sockFile, otherFile, macAddress, ctxDone, listener, done,
                 selErr, branch, acceptorVars, cancelEarly, chainVars, auxVars,
                 aliveResult, infoMac, confLease, otherListening>>
RunCleanup ==
  /\ pcRun = "cleanup"
  /\ IF sockFile
       THEN \E ok \in BOOLEAN :
              /\ sockFile' = ~ok
              /\ runResult' = IF ok THEN "nil" ELSE "remove_err"
       ELSE /\ runResult' = "nil"
            /\ sockFile' = sockFile
  /\ otherFile' = (otherFile /\ sockFile')
  /\ pcRun' = "returned"
  /\ UNCHANGED <<macAddress, ctxDone, listener, done, selErr, branch,
                 acceptorVars, cancelEarly, chainVars, auxVars, aliveResult,
                 infoMac, confLease, otherListening>>

\* a second daemon instance, bound to the same path, leaves its select:
\* qemuListener.Close() and the removal of the file at the path
OtherStop ==
  /\ otherListening
  /\ otherListening' = FALSE
  /\ \E removed \in BOOLEAN : sockFile' = (sockFile /\ ~removed)
  /\ otherFile' = (otherFile /\ sockFile')
  /\ UNCHANGED <<macAddress, ctxDone, pcRun, listener, done, selErr, branch,
                 runResult, acceptorVars, cancelEarly, chainVars, auxVars,
                 aliveResult, infoMac, confLease>>

\* goroutine: conn, err := qemuListener.Accept() returns a connection
AccAcceptConnLoop ==
  /\ accPc = "accept"
  /\ listener = "open"
  /\ backlog > 0
  /\ backlog' = backlog - 1
  /\ accPc' = "accept"
  /\ UNCHANGED <<sockFile, macAddress, ctxDone, pcRun, listener, done, selErr,
                 branch, runResult, accOut, connects, reports, cancelEarly,
                 chainVars, auxVars, probeVars>>
AccAcceptConn ==
  /\ accPc = "accept"
  /\ listener = "open"
  /\ backlog > 0
  /\ backlog' = backlog - 1
  /\ accPc' = "bridging"
  /\ UNCHANGED <<sockFile, macAddress, ctxDone, pcRun, listener, done, selErr,
                 branch, runResult, accOut, connects, reports, cancelEarly,
                 chainVars, auxVars, probeVars>>

\* goroutine: Accept returns an error (always so once the listener is closed)
AccAcceptErr ==
  /\ accPc = "accept"
  /\ accOut' = "accept_err"
  /\ accPc' = "send"
  /\ UNCHANGED <<sockFile, macAddress, ctxDone, pcRun, listener, done, selErr,
                 branch, runResult, backlog, connects, reports, cancelEarly,
                 chainVars, auxVars, probeVars>>

\* goroutine: vn.AcceptQemu(ctx, conn) returns
AccBridgeReturn ==
  /\ accPc = "bridging"
  /\ \E out \in {"nil", "bridge_err"} : accOut' = out
  /\ accPc' = "send"
  /\ UNCHANGED <<sockFile, macAddress, ctxDone, pcRun, listener, done, selErr,
                 branch, runResult, backlog, connects, reports, cancelEarly,
                 chainVars, auxVars, probeVars>>

\* goroutine: done <- ... ; the send needs room in the channel
AccSendUnbuffered ==
  /\ accPc = "send"
  /\ pcRun = "select"
  /\ done = <<>>
  /\ done' = Append(done, accOut)
  /\ reports' = reports + 1
  /\ accPc' = "exit"
  /\ UNCHANGED <<sockFile, macAddress, ctxDone, pcRun, listener, selErr,
                 branch, runResult, accOut, backlog, connects, cancelEarly,
                 chainVars, auxVars, probeVars>>
AccSend ==
  /\ accPc = "send"
  /\ Len(done) < DoneCap
  /\ done' = Append(done, accOut)
  /\ reports' = reports + 1
  /\ accPc' = "exit"
  /\ UNCHANGED <<sockFile, macAddress, ctxDone, pcRun, listener, selErr,
                 branch, runResult, accOut, backlog, connects, cancelEarly,
                 chainVars, auxVars, probeVars>>

\* the daemon state of the design: NotStarted, Listening, Bridging, Stopped
DaemonState ==
  IF pcRun = "returned" THEN "Stopped"
  ELSE IF listener = "none" THEN "NotStarted"
  ELSE IF accPc \in {"bridging", "send", "exit"} /\ accOut # "accept_err"
    THEN "Bridging"
  ELSE "Listening"

\* gvproxyProcess.Alive: info := Info(); os.Stat(info.Socket.File())
Alive ==
  /\ macAddress' = MacAddressCached(macAddress)
  /\ aliveResult' = IF sockFile THEN "nil" ELSE "stat_err"
  /\ UNCHANGED <<sockFile, ctxDone, pcRun, listener, done, selErr, branch,
                 runResult, acceptorVars, cancelEarly, chainVars, auxVars,
                 infoMac, confLease, otherListening, otherFile>>

\* the caller cancels ctx
Cancel ==
  /\ ~ctxDone
  /\ ctxDone' = TRUE
  /\ cancelEarly' = (DaemonState = "Listening" /\ connects = 0)
  /\ UNCHANGED <<sockFile, macAddress, pcRun, listener, done, selErr, branch,
                 runResult, acceptorVars, chainVars, auxVars, probeVars>>

\* a client (the guest's qemu) connects to the control socket
ClientConnect ==
  /\ listener = "open"
  /\ sockFile
  /\ connects < MaxClients
  /\ connects' = connects + 1
  /\ backlog' = backlog + 1
  /\ UNCHANGED <<sockFile, macAddress, ctxDone, pcRun, listener, done, selErr,
                 branch, runResult, accPc, accOut, reports, cancelEarly,
                 chainVars, auxVars, probeVars>>

\* no other daemon instance uses the socket path
NoOther ==
  /\ otherListening = FALSE
  /\ otherFile = FALSE

(* ------------------------------ Socket --------------------------------- *)
MaxSegs == 3

\* the names a path is made of; "unix:" makes paths that begin like the URI
Segments == {"run", "unix:", "gvproxy.sock"}

\* filepath.Join: the elements separated by "/", an absolute or relative path
RECURSIVE Join(_)
Join(elems) ==
  IF Len(elems) = 1 THEN Head(elems) ELSE Head(elems) \o "/" \o Join(Tail(elems))

\* the paths P a Socket is made from, as filepath.Join cleans them
Paths ==
  LET names == UNION {[1..n -> Segments] : n \in 1..MaxSegs} IN
    {Join(e) : e \in names} \cup {"/" \o Join(e) : e \in names}

\* strings.TrimPrefix(s, prefix)
TrimPrefix(s, prefix) ==
  IF Len(s) >= Len(prefix) /\ SubSeq(s, 1, Len(prefix)) = prefix
    THEN SubSeq(s, Len(prefix) + 1, Len(s))
    ELSE s

\* func (s Socket) File() string
FileUntrimmed(s) == s
File(s) == TrimPrefix(s, "unix://")

\* func (s Socket) Unix() string
Unix(s) == "unix://" \o File(s)

\* what the socket variables do not touch
socketFrame == <<chainVars, sockFile, macAddress, ctxDone, pcRun, listener,
                 done, selErr, branch, runResult, acceptorVars, cancelEarly,
                 probeVars, macPc, macRet, goos, resolvConf, domains, extVars>>

\* both views of a Socket value
Views(s) == [file |-> File(s), unix |-> Unix(s)]

\* Socket(P) for a bare path P
SocketOfPath ==
  /\ \E p \in Paths :
       /\ path' = p
       /\ socket' = p
       /\ views' = Views(p)
  /\ UNCHANGED socketFrame

\* Socket(s.Unix()) for the Socket s at hand: Socket("unix://" + P)
SocketOfUnix ==
  /\ socket # ""
  /\ socket' = Unix(socket)
  /\ views' = Views(Unix(socket))
  /\ UNCHANGED <<path, socketFrame>>

(* ------------------------------ searchDomains -------------------------- *)
MaxLines == 2

\* the state of the process before searchDomains ran
resolvFrame == <<chainVars, sockFile, macAddress, ctxDone, pcRun, listener,
                 done, selErr, branch, runResult, acceptorVars, cancelEarly,
                 probeVars, macPc, macRet, path, socket, views, extVars>>

\* lines a resolver configuration is made of: the text, whether it is a
\* search directive and the domains it names
ResolvLines ==
  <<[text |-> "search foo.local bar.local", search |-> TRUE,
     domains |-> <<"foo.local", "bar.local">>],
    [text |-> "search \tcorp.example  ", search |-> TRUE,
     domains |-> <<"corp.example">>],
    [text |-> "search ", search |-> TRUE, domains |-> <<>>],
    [text |-> "nameserver 192.168.5.3", search |-> FALSE, domains |-> <<>>],
    [text |-> " search lead.ing", search |-> FALSE, domains |-> <<>>],
    [text |-> "searching x.y\r", search |-> FALSE, domains |-> <<>>]>>

\* the bytes of a file with these lines, each ended by a newline but the last
RECURSIVE FileOf(_)
FileOf(ls) ==
  IF ls = <<>> THEN ""
  ELSE IF Len(ls) = 1 THEN ResolvLines[Head(ls)].text
  ELSE ResolvLines[Head(ls)].text \o "\n" \o FileOf(Tail(ls))

\* the outcomes of os.ReadFile("/etc/resolv.conf")
ReadFile ==
  {[ok |-> FALSE, lines |-> <<>>, content |-> ""]} \cup
  {[ok |-> TRUE, lines |-> ls, content |-> FileOf(ls)] :
     ls \in UNION {[1..n -> DOMAIN ResolvLines] : n \in 0..MaxLines}}

GOOS == {"linux", "darwin", "windows"}

\* strings.HasPrefix(s, prefix)
HasPrefix(s, prefix) ==
  Len(s) >= Len(prefix) /\ SubSeq(s, 1, Len(prefix)) = prefix

\* the position of the first character of s that is in cs, 0 if there is none
IndexAny(s, cs) ==
  LET hits == {k \in 1..Len(s) : SubSeq(s, k, k) \in cs} IN
    IF hits = {} THEN 0 ELSE CHOOSE k \in hits : \A j \in hits : k <= j

\* bufio.ScanLines: the lines of b, without the newline and a trailing "\r"
RECURSIVE ScanLines(_)
ScanLines(b) ==
  LET dropCR(l) == IF Len(l) > 0 /\ SubSeq(l, Len(l), Len(l)) = "\r"
                     THEN SubSeq(l, 1, Len(l) - 1) ELSE l
      k == IndexAny(b, {"\n"})
  IN IF b = "" THEN <<>>
     ELSE IF k = 0 THEN <<dropCR(b)>>
     ELSE <<dropCR(SubSeq(b, 1, k - 1))>> \o ScanLines(SubSeq(b, k + 1, Len(b)))

WhiteSpace == {" ", "\t", "\n", "\r"}

\* strings.Fields(s): the maximal runs of characters that are not white space
RECURSIVE Fields(_)
Fields(str) ==
  IF str = "" THEN <<>>
  ELSE IF SubSeq(str, 1, 1) \in WhiteSpace THEN Fields(SubSeq(str, 2, Len(str)))
  ELSE LET k == IndexAny(str, WhiteSpace) IN
         IF k = 0 THEN <<str>>
         ELSE <<SubSeq(str, 1, k - 1)>> \o Fields(SubSeq(str, k + 1, Len(str)))

\* the loop over sc.Scan(): the first line with the prefix decides
RECURSIVE ScanSearchLast(_)
ScanSearchLast(lines) ==
  IF lines = <<>> THEN <<>>
  ELSE IF HasPrefix(lines[Len(lines)], "search ")
         THEN Fields(TrimPrefix(lines[Len(lines)], "search "))
  ELSE ScanSearchLast(SubSeq(lines, 1, Len(lines) - 1))
RECURSIVE ScanSearch(_)
ScanSearch(lines) ==
  IF lines = <<>> THEN <<>>
  ELSE IF HasPrefix(Head(lines), "search ")
         THEN Fields(TrimPrefix(Head(lines), "search "))
  ELSE ScanSearch(Tail(lines))

\* func searchDomains() []string; nil is the empty list
searchDomains ==
  /\ \E os \in GOOS, file \in ReadFile :
       /\ goos' = os
       /\ resolvConf' = file
       /\ domains' = IF os \notin {"darwin", "linux"} THEN <<>>
                     ELSE IF ~file.ok THEN <<>>
                     ELSE ScanSearch(ScanLines(file.content))
  /\ UNCHANGED resolvFrame

(* ------------------------------ chains of one Named Chain -------------- *)
MaxAdds == 2

\* the users of one namedCommandChain
Callers == {"a", "b"}

\* everything but the Active Chains
coreVars == <<chainVars, sockFile, macAddress, ctxDone, pcRun, listener, done,
              selErr, branch, runResult, acceptorVars, cancelEarly, probeVars,
              macPc, macRet, path, socket, views, goos, resolvConf, domains>>

\* &ActiveCommandChain{log: n.Logger()}
NewActiveChain == [funcs |-> <<>>, lastStage |-> ""]

\* the n-th closure a caller made; ok is what it returns
OpOf(c, n, ok) ==
  [type |-> "plain", stage |-> "", count |-> 0, owner |-> c, n |-> n, ok |-> ok]

\* namedCommandChain.Init, called once by each caller: a new object on the
\* heap
InitChainShared(c) ==
  /\ handle[c] = 0
  /\ heap' = IF heap = <<>> THEN <<NewActiveChain>> ELSE heap
  /\ handle' = [handle EXCEPT ![c] = 1]
  /\ added' = [added EXCEPT ![c] = <<>>]
  /\ UNCHANGED <<ran, coreVars, k8sVars, startVars>>
InitChain(c) ==
  /\ handle[c] = 0
  /\ heap' = Append(heap, NewActiveChain)
  /\ handle' = [handle EXCEPT ![c] = Len(heap) + 1]
  /\ added' = [added EXCEPT ![c] = <<>>]
  /\ UNCHANGED <<ran, coreVars, k8sVars, startVars>>

\* a.funcs = append(a.funcs, st) through the caller's pointer
AppendTo(c, st) ==
  /\ handle[c] # 0
  /\ Len(heap[handle[c]].funcs) < MaxAdds
  /\ heap' = [heap EXCEPT ![handle[c]].funcs = Append(@, st)]
  /\ added' = [added EXCEPT ![c] = Append(@, st)]
  /\ UNCHANGED <<handle, ran, coreVars, k8sVars, startVars>>

\* a.Add(f) with a closure of the caller
AddTo(c) ==
  \E ok \in BOOLEAN : AppendTo(c, cFunc(OpOf(c, Len(added[c]) + 1, ok), ""))

\* a.Stage(s)
StageTo(c) == \E lbl \in {"", "A"} : AppendTo(c, cFunc(NilFunc, lbl))

\* the range loop of Exec over fs, with ls the last stage and ops the
\* closures invoked so far
RECURSIVE ExecAll(_, _, _)
ExecAll(fs, ls, ops) ==
  IF fs = <<>> THEN [ops |-> ops, result |-> Returned(FALSE, "", NoErr)]
  ELSE LET st == Head(fs) IN
    IF st.f.type = "nil" THEN ExecAll(Tail(fs), EnterStage(ls, st.s), ops)
    ELSE IF st.f.ok THEN ExecAll(Tail(fs), ls, Append(ops, st.f))
    ELSE [ops |-> Append(ops, st.f),
          result |-> ExecError(ls, ErrOf(st.f.n, 1))]

\* a.Exec() on the caller's chain; the value receiver copies *a
ExecOn(c) ==
  /\ handle[c] # 0
  /\ ran' = [ran EXCEPT ![c] = ExecAll(heap[handle[c]].funcs,
                                       heap[handle[c]].lastStage, <<>>)]
  /\ UNCHANGED <<heap, handle, added, coreVars, k8sVars, startVars>>

(* ------------------------------ kubernetes runtime -------------------- *)
MaxInstall == 1

\* what the kubernetes runtime does not touch
k8sFrame == <<sockFile, macAddress, ctxDone, pcRun, listener, done, selErr,
              branch, runResult, acceptorVars, cancelEarly, probeVars, macPc,
              macRet, path, socket, views, goos, resolvConf, domains, heapVars,
              startVars>>

DefaultVersion == "v1.23.6+k3s1"
Versions == {DefaultVersion, "v1.24.3+k3s1"}
Runtimes == {"containerd", "docker"}

\* a closure that runs a host or guest command
Cmd(name) == [type |-> "plain", stage |-> "", count |-> 0, cmd |-> name]

\* a closure that calls c.guest.Set(key, value)
SetOp(key, value) ==
  [type |-> "set", stage |-> "", count |-> 0, cmd |-> "guest.Set",
   key |-> key, value |-> value]

\* a closure whose command rewrites the kubeconfig file of the host
HostOp(name, value) ==
  [type |-> "set", stage |-> "", count |-> 0, cmd |-> name,
   key |-> "kubeconfig", value |-> value]

\* a := c.Init(): a new chain, nothing executed
FreshChain ==
  /\ funcs' = <<>>
  /\ lastStage' = ""
  /\ pc' = "idle"
  /\ execFuncs' = <<>>
  /\ execLastStage' = ""
  /\ idx' = 0
  /\ i' = 0
  /\ err' = NoErr
  /\ trace' = <<>>
  /\ result' = NoResult
  /\ staged' = FALSE

\* a := c.Init(), the appends that give chain, and the entry of a.Exec()
InitAndExec(chain) ==
  /\ funcs' = chain
  /\ lastStage' = ""
  /\ pc' = "exec"
  /\ execFuncs' = chain
  /\ execLastStage' = ""
  /\ idx' = 1
  /\ i' = 0
  /\ err' = NoErr
  /\ trace' = <<>>
  /\ result' = NoResult
  /\ staged' = FALSE

\* the steps installK3s, installK3sCache, installK3sCluster and
\* installContainerdDeps append: operations on the host and the guest
InstallSteps(n) == [k \in 1..n |-> cFunc(Cmd("install"), "")]

\* the stage and install steps Provision appends before the runtime's
ProvisionHead(ok, versionInstalled, installed, current, rt, conf, n) ==
  IF versionInstalled
    THEN (IF current # "" /\ current # rt
            THEN <<cFunc(NilFunc, Sprintf(<<"changing runtime to ", "%s">>, <<rt>>))>>
                 \o InstallSteps(n)
            ELSE <<>>) \o InstallSteps(n)
    ELSE <<cFunc(NilFunc,
                 IF installed
                   THEN Sprintf(<<"version changed to ", "%s",
                                  ", downloading and installing">>, <<conf>>)
                   ELSE IF ok THEN "downloading and installing"
                   ELSE "installing")>> \o InstallSteps(n)

\* switch runtime: the steps needed on each startup
ProvisionDeps(rt, n) ==
  IF rt = "containerd" THEN InstallSteps(n)
  ELSE IF rt = "docker"
    THEN <<cFunc(RetryFunc("waiting for docker cri", 5), "")>>
  ELSE <<>>

\* the chain of Provision: a.Add(func() error { return c.setConfig(conf) })
\* comes last
ProvisionChainPersistFirst(head, deps, conf) ==
  <<cFunc(SetOp("config", conf), "")>> \o head \o deps
ProvisionChain(head, deps, conf) ==
  head \o deps \o <<cFunc(SetOp("config", conf), "")>>

\* kubernetesRuntime.Provision up to the entry of a.Exec()
ProvisionCall ==
  /\ k8sPc = "idle"
  /\ pc = "idle"
  /\ \E running, ok, versionInstalled, installed \in BOOLEAN,
        ver \in Versions, appRuntime \in Runtimes,
        current \in Runtimes \cup {""}, n \in 1..MaxInstall :
       \* an input that the call does not read takes one value
       /\ running => (ok /\ versionInstalled /\ current = "" /\ n = 1)
       /\ (running \/ ~ok) => (ver = DefaultVersion /\ appRuntime = "docker")
       /\ versionInstalled => installed
       /\ (ok /\ ~versionInstalled) => current = ""
       /\ LET rt == IF ok THEN appRuntime ELSE current
              conf == IF ok THEN ver
                      ELSE IF guestStore.config # "" THEN guestStore.config
                      ELSE DefaultVersion
              chain == ProvisionChain(
                         ProvisionHead(ok, versionInstalled, installed, current,
                                       rt, conf, n),
                         ProvisionDeps(rt, n), conf)
          IN /\ k8sIn' = [call |-> "Provision", running |-> running,
                           conf |-> conf, ip |-> vmIP, kube |-> "",
                           before |-> guestStore]
             /\ IF running
                  THEN /\ FreshChain
                       /\ k8sRet' = [call |-> "Provision",
                                      result |-> Returned(FALSE, "", NoErr)]
                       /\ k8sPc' = "idle"
                  ELSE /\ InitAndExec(chain)
                       /\ k8sRet' = [call |-> "", result |-> NoResult]
                       /\ k8sPc' = "Provision"
  /\ UNCHANGED <<guestStore, vmIP, k8sFrame>>

\* a step whose closure calls c.guest.Set or rewrites the kubeconfig of the
\* host (kept with the guest's settings in guestStore): err := f.f()
ExecSet ==
  /\ pc = "exec"
  /\ idx <= Len(execFuncs)
  /\ execFuncs[idx].f.type = "set"
  /\ \E ok \in BOOLEAN :
       LET f == execFuncs[idx].f
           e == IF ok THEN NoErr ELSE ErrOf(idx, 1)
       IN /\ guestStore' = IF ok THEN [guestStore EXCEPT ![f.key] = f.value]
                           ELSE guestStore
          /\ trace' = trace \o <<Event("op", idx, 0, TRUE, ""),
                                  Event("ret", idx, e.n, ok, "")>>
          /\ IF ok
               THEN /\ idx' = idx + 1
                    /\ pc' = "exec"
                    /\ result' = result
               ELSE /\ idx' = idx
                    /\ pc' = "idle"
                    /\ result' = ExecError(execLastStage, e)
  /\ UNCHANGED <<staged, funcs, lastStage, execFuncs, execLastStage, i, err,
                 vmIP, k8sPc, k8sIn, k8sRet, k8sFrame>>

\* return a.Exec()
ProvisionReturn ==
  /\ k8sPc = "Provision"
  /\ pc = "idle"
  /\ result.returned
  /\ k8sRet' = [call |-> "Provision", result |-> result]
  /\ k8sPc' = "idle"
  /\ UNCHANGED <<chainVars, guestStore, vmIP, k8sIn, k8sFrame>>

\* lima.IPAddress(config.Profile().ID)
IPs == {"192.168.5.1", "192.168.5.2"}

\* the address of the virtual machine changes between two calls
VmAddress ==
  /\ k8sPc = "idle"
  /\ pc = "idle"
  /\ \E ip \in IPs \ {vmIP} : vmIP' = ip
  /\ UNCHANGED <<chainVars, guestStore, k8sPc, k8sIn, k8sRet, k8sFrame>>

\* the chain of Start: the stage, the service, the cluster-info probe
StartChainProbeFirst ==
  <<cFunc(NilFunc, "starting"),
    cFunc(RetryFunc("", 10), ""),
    cFunc(Cmd("service k3s start"), "")>>
StartChain ==
  <<cFunc(NilFunc, "starting"),
    cFunc(Cmd("service k3s start"), ""),
    cFunc(RetryFunc("", 10), "")>>

\* kubernetesRuntime.Start up to the entry of a.Exec()
StartCall ==
  /\ k8sPc = "idle"
  /\ pc = "idle"
  /\ \E running \in BOOLEAN :
       /\ k8sIn' = [call |-> "Start", running |-> running, conf |-> "",
                     ip |-> vmIP, kube |-> "", before |-> guestStore]
       /\ IF running
            THEN /\ FreshChain
                 /\ k8sRet' = [call |-> "Start",
                                result |-> Returned(FALSE, "", NoErr)]
                 /\ k8sPc' = "idle"
            ELSE /\ InitAndExec(StartChain)
                 /\ k8sRet' = [call |-> "", result |-> NoResult]
                 /\ k8sPc' = "Start"
  /\ UNCHANGED <<guestStore, vmIP, k8sFrame>>

\* if err := a.Exec(); err != nil { return err }
StartReturn ==
  /\ k8sPc = "Start"
  /\ pc = "idle"
  /\ result.returned
  /\ result.err # NoErr
  /\ k8sRet' = [call |-> "Start", result |-> result]
  /\ k8sPc' = "idle"
  /\ UNCHANGED <<chainVars, guestStore, vmIP, k8sIn, k8sFrame>>

\* c.unsetKubeconfig(a)
UnsetSteps ==
  <<cFunc(HostOp("kubectl config unset users", "unset"), ""),
    cFunc(HostOp("kubectl config unset contexts", "unset"), ""),
    cFunc(HostOp("kubectl config unset clusters", "unset"), "")>>

\* fmt.Errorf("error retrieving home directory on host"): an error that no
\* step of a chain produced
HomeError == ErrOf(0, 1)

\* the chain of provisionKubeconfig; the master address is saved last
KubeconfigChainSaveFirst(ip) ==
  (<<cFunc(NilFunc, "updating config"), cFunc(SetOp("master", ip), "")>>
     \o UnsetSteps)
  \o <<cFunc(Cmd("mkdir"), ""),
       cFunc(Cmd("fetch"), ""),
       cFunc(Cmd("merge"), ""),
       cFunc(HostOp("cp", "colima"), ""),
       cFunc(Cmd("kubectl config use-context"), "")>>
KubeconfigChain(ip) ==
  (<<cFunc(NilFunc, "updating config")>> \o UnsetSteps)
  \o <<cFunc(Cmd("mkdir"), ""),
       cFunc(Cmd("fetch"), ""),
       cFunc(Cmd("merge"), ""),
       cFunc(HostOp("cp", "colima"), ""),
       cFunc(Cmd("kubectl config use-context"), ""),
       cFunc(SetOp("master", ip), "")>>

\* Start after a.Exec() returned nil: return c.provisionKubeconfig(), up to
\* the entry of its a.Exec()
StartKubeconfig ==
  /\ k8sPc = "Start"
  /\ pc = "idle"
  /\ result.returned
  /\ result.err = NoErr
  /\ \E hostHome \in {"", "/home/user"} :
       IF vmIP = guestStore.master
         THEN /\ k8sIn' = [k8sIn EXCEPT !.kube = "same"]
              /\ k8sRet' = [call |-> "Start",
                             result |-> Returned(FALSE, "", NoErr)]
              /\ k8sPc' = "idle"
              /\ UNCHANGED chainVars
         ELSE IF hostHome = ""
           THEN /\ k8sIn' = [k8sIn EXCEPT !.kube = "home"]
                /\ k8sRet' = [call |-> "Start",
                               result |-> Returned(FALSE, "", HomeError)]
                /\ k8sPc' = "idle"
                /\ funcs' = <<cFunc(NilFunc, "updating config")>> \o UnsetSteps
                /\ lastStage' = ""
                /\ UNCHANGED execLocals
           ELSE /\ k8sIn' = [k8sIn EXCEPT !.kube = "exec", !.ip = vmIP]
                /\ InitAndExec(KubeconfigChain(vmIP))
                /\ k8sRet' = k8sRet
                /\ k8sPc' = "Kubeconfig"
  /\ UNCHANGED <<guestStore, vmIP, k8sFrame>>

\* provisionKubeconfig: return a.Exec(), which Start returns
KubeconfigReturn ==
  /\ k8sPc = "Kubeconfig"
  /\ pc = "idle"
  /\ result.returned
  /\ k8sRet' = [call |-> "Start", result |-> result]
  /\ k8sPc' = "idle"
  /\ UNCHANGED <<chainVars, guestStore, vmIP, k8sIn, k8sFrame>>

(* ------------------------------ start command ------------------------- *)
MaxGiven == 1
MaxKept == 2

\* mountsFromFlag converts mounts from cli flag format to config file format
mountsFromFlag(mounts) ==
  [k \in 1..Len(mounts) |->
     LET c == IndexAny(mounts[k], {":"})
         \* strings.SplitN(mount, ":", 2)
         str == IF c = 0 THEN <<mounts[k]>>
                ELSE <<SubSeq(mounts[k], 1, c - 1),
                       SubSeq(mounts[k], c + 1, Len(mounts[k]))>>
     IN [Location |-> str[1], Writable |-> Len(str) >= 2 /\ str[2] = "w"]]

\* configmanager.LoadFrom(templateFile()) where there is a template
Template ==
  [f \in ConfigFields |->
     IF f = "mount" THEN <<[Location |-> "/var", Writable |-> FALSE]>>
     ELSE "file"]

\* the subsets of S of at most k elements
RECURSIVE UpTo(_, _)
UpTo(k, S) ==
  IF k = 0 THEN {{}}
  ELSE LET P == UpTo(k - 1, S) IN P \cup {p \cup {x} : p \in P, x \in S}

\* a new process on the host of the earlier ones: cobra parses the command
\* line into startCmdArgs and marks the flags that were given as Changed;
\* a flag given has the value "flag", --mount the value /src:w
Parse(given, edit, macOS) ==
  /\ startPc = "idle"
  /\ (startRet # "none" \/ configFile # NoConfig) => macOS = cmd.macOS
  /\ cmd' = [macOS |-> macOS, changed |-> given]
  /\ startCmdArgs' =
       [Config |->
          [f \in ConfigFields |->
             IF f \in given /\ f # "mount" THEN "flag"
             ELSE IF f \in CommonFlags
                     \/ (macOS /\ f \in {"network-address", "network-driver"})
               THEN "default"
             ELSE NoConfig[f]],
        Mounts |-> IF "mount" \in given THEN <<"/src:w">> ELSE <<>>,
        LegacyKubernetes |->
          IF "with-kubernetes" \in given THEN "legacy" ELSE "default",
        Edit |-> edit]
  /\ startLog' = <<>>
  /\ startPc' = "parsed"
  /\ UNCHANGED <<configFile, app, startRet, coreVars, heapVars, k8sVars>>

\* colima start with setting flags, among those init() registers
ParseFlags ==
  \E macOS \in BOOLEAN :
    \E given \in UpTo(MaxGiven,
                      (CommonFlags \cup {"mount", "with-kubernetes"})
                        \cup (IF macOS
                                THEN {"network-address", "network-driver"}
                                ELSE {})) :
      /\ Cardinality({f \in ConfigFields :
                        IF f = "mount" THEN configFile[f] = mountsFromFlag(<<"/src:w">>)
                        ELSE configFile[f] \in {"flag", "legacy"}})
           + Cardinality(given) <= MaxKept
      /\ Parse(given, FALSE, macOS)

\* colima start, colima start --edit
StartArgs == \E macOS, edit \in BOOLEAN : Parse({}, edit, macOS)

\* prepareConfig: startCmdArgs.Config when it returns
prepareConfig(args, changed, current, templateOk, macOS) ==
  LET legacy == "with-kubernetes" \in changed
      changed1 == IF legacy THEN changed \cup {"kubernetes"} ELSE changed
      a1 == IF legacy
              THEN [args.Config EXCEPT !["kubernetes"] = args.LegacyKubernetes]
              ELSE args.Config
      a2 == [a1 EXCEPT !["mount"] = mountsFromFlag(args.Mounts)]
      \* current.Empty(): attempt template
      cur == IF current = NoConfig THEN Template ELSE current
      \* use current settings for unchanged configs
      restored ==
        {"arch", "disk", "kubernetes", "runtime", "cpu", "cpu-type", "memory",
         "mount", "mount-type", "ssh-agent", "dns", "env"}
          \cup (IF macOS THEN {"network-address", "network-driver"} ELSE {})
  IN IF current = NoConfig /\ ~templateOk THEN a2
     ELSE [f \in ConfigFields |->
             IF f = "docker" THEN cur[f]
             ELSE IF f \in restored /\ f \notin changed1 THEN cur[f]
             ELSE a2[f]]

\* startCmd.PreRunE: prepareConfig(cmd), then configmanager.Save
PreRunE ==
  /\ startPc = "parsed"
  /\ \E loadOk, templateOk, saveOk \in BOOLEAN :
       LET current == IF loadOk THEN configFile ELSE NoConfig
           conf == prepareConfig(startCmdArgs, cmd.changed, current,
                                 templateOk, cmd.macOS)
       IN /\ (configFile = NoConfig => loadOk)
          /\ (current # NoConfig => templateOk)
          /\ startCmdArgs' = [startCmdArgs EXCEPT !.Config = conf]
          /\ cmd' = [cmd EXCEPT !.changed =
                        IF "with-kubernetes" \in @ THEN @ \cup {"kubernetes"}
                        ELSE @]
          /\ startLog' = <<[op |-> "PreRunE.Load", ok |-> loadOk]>>
                           \o (IF current = NoConfig
                                 THEN <<[op |-> "PreRunE.LoadFrom", ok |-> templateOk]>>
                                 ELSE <<>>)
                           \o <<[op |-> "PreRunE.Save", ok |-> saveOk]>>
          /\ IF saveOk
               THEN /\ configFile' = conf
                    /\ startPc' = "ready"
                    /\ startRet' = startRet
               ELSE /\ configFile' = configFile
                    /\ startPc' = "idle"
                    /\ startRet' = "error preparing config file"
  /\ UNCHANGED <<app, coreVars, heapVars, k8sVars>>

\* RunE without --edit: the active check
RunStartAlways ==
  /\ startPc = "ready"
  /\ ~startCmdArgs.Edit
  /\ startLog' = Append(startLog, [op |-> "Active", ok |-> app.active])
  /\ startPc' = "start"
  /\ UNCHANGED <<configFile, startCmdArgs, cmd, app, startRet, coreVars, heapVars, k8sVars>>
RunStart ==
  /\ startPc = "ready"
  /\ ~startCmdArgs.Edit
  /\ startLog' = Append(startLog, [op |-> "Active", ok |-> app.active])
  /\ IF app.active
       THEN /\ startPc' = "idle"
            /\ startRet' = "nil"
       ELSE /\ startPc' = "start"
            /\ startRet' = startRet
  /\ UNCHANGED <<configFile, startCmdArgs, cmd, app, coreVars, heapVars, k8sVars>>

\* RunE with --edit: err := editConfigFile(), which saves the file the user
\* leaves in the editor
RunEdit ==
  /\ startPc = "ready"
  /\ startCmdArgs.Edit
  /\ \E ok \in BOOLEAN :
       /\ startLog' = Append(startLog, [op |-> "editConfigFile", ok |-> ok])
       /\ IF ok
            THEN /\ configFile' = [Template EXCEPT !["cpu"] = "edited"]
                 /\ startPc' = "load"
                 /\ startRet' = startRet
            ELSE /\ configFile' = configFile
                 /\ startPc' = "idle"
                 /\ startRet' = "error editing config file"
  /\ UNCHANGED <<startCmdArgs, cmd, app, coreVars, heapVars, k8sVars>>

\* conf, err = configmanager.Load(), then the active check
RunLoad ==
  /\ startPc = "load"
  /\ \E ok \in BOOLEAN :
       IF ok
         THEN /\ startLog' = (startLog \o <<[op |-> "Load", ok |-> TRUE]>>)
                               \o <<[op |-> "Active", ok |-> app.active]>>
              /\ startPc' = IF app.active THEN "prompt" ELSE "start"
              /\ startRet' = startRet
         ELSE /\ startLog' = Append(startLog, [op |-> "Load", ok |-> FALSE])
              /\ startPc' = "idle"
              /\ startRet' = "error opening config file"
  /\ UNCHANGED <<configFile, startCmdArgs, cmd, app, coreVars, heapVars, k8sVars>>

\* cli.Prompt("colima is currently running, restart to apply changes")
RunPrompt ==
  /\ startPc = "prompt"
  /\ \E yes \in BOOLEAN :
       /\ startLog' = Append(startLog, [op |-> "Prompt", ok |-> yes])
       /\ IF yes
            THEN /\ startPc' = "stop"
                 /\ startRet' = startRet
            ELSE /\ startPc' = "idle"
                 /\ startRet' = "nil"
  /\ UNCHANGED <<configFile, startCmdArgs, cmd, app, coreVars, heapVars, k8sVars>>

\* app.Stop(false), then time.Sleep(time.Second * 5)
RunStop ==
  /\ startPc = "stop"
  /\ \E ok \in BOOLEAN :
       IF ok
         THEN /\ startLog' = (startLog \o <<[op |-> "Stop", ok |-> TRUE]>>)
                               \o <<[op |-> "Sleep", ok |-> TRUE]>>
              /\ app' = [app EXCEPT !.active = FALSE]
              /\ startPc' = "start"
              /\ startRet' = startRet
         ELSE /\ startLog' = Append(startLog, [op |-> "Stop", ok |-> FALSE])
              /\ app' = app
              /\ startPc' = "idle"
              /\ startRet' = "error stopping"
  /\ UNCHANGED <<configFile, startCmdArgs, cmd, coreVars, heapVars, k8sVars>>

\* return app.Start(conf)
RunAppStart ==
  /\ startPc = "start"
  /\ \E ok \in BOOLEAN :
       /\ startLog' = Append(startLog, [op |-> "Start", ok |-> ok])
       /\ app' = [app EXCEPT !.active = ok \/ @]
       /\ startRet' = IF ok THEN "nil" ELSE "error starting"
  /\ startPc' = "idle"
  /\ UNCHANGED <<configFile, startCmdArgs, cmd, coreVars, heapVars, k8sVars>>

(* ------------------------------ MacAddress(), by threads --------------- *)
\* what MacAddress() leaves alone: everything but macAddress, macPc, macRet
macFrame == <<chainVars, sockFile, ctxDone, pcRun, listener, done, selErr,
              branch, runResult, acceptorVars, cancelEarly, probeVars, path,
              socket, views, goos, resolvConf, domains, extVars>>

\* if macAddress == nil
MacCheck(t) ==
  /\ macPc[t] = "idle"
  /\ macPc' = [macPc EXCEPT ![t] = IF macAddress = <<>> THEN "base" ELSE "return"]
  /\ UNCHANGED <<macAddress, macRet, macFrame>>

\* sum := util.SHA256Hash(daemon.Dir()); macAddress = append(macAddress, baseHWAddr...)
MacAppendBase(t) ==
  /\ macPc[t] = "base"
  /\ macAddress' = macAddress \o baseHWAddr
  /\ macPc' = [macPc EXCEPT ![t] = "sum"]
  /\ UNCHANGED <<macRet, macFrame>>

\* macAddress = append(macAddress, sum[0:3]...)
MacAppendSum(t) ==
  /\ macPc[t] = "sum"
  /\ macAddress' = macAddress \o SubSeq(DirSum, 1, 3)
  /\ macPc' = [macPc EXCEPT ![t] = "return"]
  /\ UNCHANGED <<macRet, macFrame>>

\* return macAddress.String()
MacReturn(t) ==
  /\ macPc[t] = "return"
  /\ macRet' = [macRet EXCEPT ![t] = String(macAddress)]
  /\ macPc' = [macPc EXCEPT ![t] = "idle"]
  /\ UNCHANGED <<macAddress, macFrame>>

(* ------------------------------ chain properties ----------------------- *)
\* an Exec has returned and nothing was appended or executed since
Done == pc = "idle" /\ result.returned

\* the indices of the steps that hold an operation, in insertion order
OpSteps(fs) ==
  LET F[k \in 0..Len(fs)] ==
        IF k = 0 THEN <<>>
        ELSE IF fs[k].f.type # "nil" THEN Append(F[k - 1], k) ELSE F[k - 1]
  IN F[Len(fs)]

SetMax(S) == CHOOSE m \in S : \A x \in S : x <= m

\* C1 (fail-fast): when Exec has returned, the operations it invoked are the
\* first K operations of the chain, once each and in insertion order, each
\* invoked after the previous one returned; all but the last returned nil; if
\* the last one returned an error Exec returned that error (raw or wrapped)
\* and no later operation ran; otherwise all N ran and Exec returned nil.
C1_FailFast ==
  Done =>
    LET ops == OpSteps(execFuncs)
        inv == EventsOf(trace, "op")
        rets == EventsOf(trace, "ret")
        both == SelectSeq(trace, LAMBDA e : e.type \in {"op", "ret"})
        n == Len(inv)
    IN /\ n <= Len(ops)
       /\ Len(rets) = n
       /\ \A k \in 1..n : inv[k].step = ops[k] /\ rets[k].step = ops[k]
       /\ \A k \in 1..n : both[2 * k - 1].type = "op" /\ both[2 * k].type = "ret"
       /\ \A k \in 1..(n - 1) : rets[k].ok
       /\ IF n > 0 /\ ~rets[n].ok
            THEN result.err = ErrOf(ops[n], rets[n].n)
            ELSE n = Len(ops) /\ result = Returned(FALSE, "", NoErr)

\* C1 witness: a chain of three operations whose second one failed
C1_Witness ==
  /\ Done
  /\ Len(OpSteps(execFuncs)) = 3
  /\ Len(EventsOf(trace, "op")) = 2
  /\ result.err.step = OpSteps(execFuncs)[2]

\* the step of the stage marker that the claim attributes a failure at p to
StagesBefore(fs, p) == {k \in 1..(p - 1) : fs[k].f.type = "nil"}
LabelledStagesBefore(fs, p) == {k \in StagesBefore(fs, p) : fs[k].s # ""}

\* C2 as stated (stage tagging): when an operation fails, Exec returns
\* "error at 'X': <original>" for the label X of the latest Stage step before
\* it, whatever X is, and the raw error if no Stage step precedes it.
C2_StageTagging_Original ==
  (Done /\ result.err # NoErr) =>
    LET st == StagesBefore(execFuncs, result.err.step) IN
      IF st = {} THEN ~result.wrapped
      ELSE result.wrapped /\ result.stage = execFuncs[SetMax(st)].s

\* C2 amended: the same with Stage steps of an empty label ignored: the tag
\* is the label of the latest Stage step with a non-empty label before the
\* failing operation, and the error is raw if there is no such step.
C2_StageTagging ==
  (Done /\ result.err # NoErr) =>
    LET st == LabelledStagesBefore(execFuncs, result.err.step) IN
      IF st = {} THEN ~result.wrapped /\ result.stage = ""
      ELSE result.wrapped /\ result.stage = execFuncs[SetMax(st)].s

\* C2 witness: Stage("A"), Stage(""), then a failing operation, tagged 'A'
C2_Witness ==
  /\ Done
  /\ result.wrapped
  /\ result.err.step = 3
  /\ execFuncs[1] = cFunc(NilFunc, "A")
  /\ execFuncs[2] = cFunc(NilFunc, "")

\* the "ret" events of Retry steps with a positive count
RetryRets(tr, fs) ==
  {p \in 1..Len(tr) : /\ tr[p].type = "ret"
                      /\ fs[tr[p].step].f.type = "retry"
                      /\ fs[tr[p].step].f.count >= 1}

\* C3 (retry exhaustion): a Retry step with count N >= 1 whose function
\* failed on every call has invoked it exactly N times with the attempt
\* numbers 1..N in order, and returned the error of the N-th invocation.
C3_RetryExhaustion ==
  \A p \in RetryRets(trace, execFuncs) :
    LET cs == CallsOf(trace, trace[p].step)
        N == execFuncs[trace[p].step].f.count
    IN (\A j \in 1..Len(cs) : ~cs[j].ok) =>
         /\ Len(cs) = N
         /\ \A j \in 1..Len(cs) : cs[j].n = j
         /\ trace[p].n = N

\* C4 (retry early success): a Retry step with count N whose function first
\* succeeded when called with attempt number K <= N has invoked it exactly K
\* times, the successful call being the last one, and returned nil.
C4_RetryEarlySuccess ==
  \A p \in RetryRets(trace, execFuncs) :
    LET cs == CallsOf(trace, trace[p].step)
        N == execFuncs[trace[p].step].f.count
        succ == {j \in 1..Len(cs) : cs[j].ok}
    IN (succ # {} /\ cs[SetMax(succ)].n <= N) =>
         /\ Len(cs) = cs[SetMax(succ)].n
         /\ succ = {Len(cs)}
         /\ trace[p].ok

\* the last stage as the claim states it: every stage marker before p
\* replaces it, whatever its label
StatedStage(fs, p) ==
  LET F[k \in 0..(p - 1)] ==
        IF k = 0 THEN ""
        ELSE IF fs[k].f.type = "nil" THEN fs[k].s ELSE F[k - 1]
  IN F[p - 1]

\* the same with the stage markers of an empty label skipped
AttributedStage(fs, p) ==
  LET F[k \in 0..(p - 1)] ==
        IF k = 0 THEN ""
        ELSE IF fs[k].f.type = "nil" /\ fs[k].s # "" THEN fs[k].s ELSE F[k - 1]
  IN F[p - 1]

\* C16 as stated (most-recent-stage attribution): the tag of the error of a
\* failed operation is the label of the latest Stage step before it, every
\* stage marker replacing the previous last-stage whatever its label.
C16_MostRecentStage_Original ==
  (Done /\ result.err # NoErr) =>
    result.stage = StatedStage(execFuncs, result.err.step)

\* C16 amended: the tag is the label of the latest Stage step with a
\* non-empty label before the failing operation (a Stage step with an empty
\* label leaves the last-stage as it was); it is a function of the steps
\* before the failing operation only, so Stage steps after it never count.
C16_MostRecentStage ==
  (Done /\ result.err # NoErr) =>
    LET tag == AttributedStage(execFuncs, result.err.step) IN
      /\ result.stage = tag
      /\ result.wrapped <=> tag # ""

\* C16 witness: Stage("A"), a failing operation, Stage("B"): tagged 'A'
C16_Witness ==
  /\ Done
  /\ Len(execFuncs) = 3
  /\ execFuncs[1] = cFunc(NilFunc, "A")
  /\ result.err.step = 2
  /\ execFuncs[3] = cFunc(NilFunc, "B")
  /\ result = Returned(TRUE, "A", ErrOf(2, 1))

\* the Retry steps whose closure has run or is running
RetrySteps(tr, fs) ==
  {st \in 1..Len(fs) : fs[st].f.type = "retry" /\ CallsOf(tr, st) # <<>>}

\* what the Retry closure of a step did: invocations, logs and sleeps
Pacing(tr, st) ==
  SelectSeq(tr, LAMBDA e : e.step = st /\ e.type \in {"call", "log", "sleep"})

\* invocations separated by (a log of the label, if logs, and) one sleep
Paced(seg, label, logs) ==
  LET per == IF logs THEN 3 ELSE 2 IN
    /\ Len(seg) % per = 1
    /\ \A k \in 1..Len(seg) :
         IF k % per = 1 THEN seg[k].type = "call"
         ELSE IF k % per = 0 THEN seg[k].type = "sleep"
         ELSE seg[k].type = "log" /\ seg[k].s = label

\* C17 as stated (retry pacing): a Retry step sleeps exactly once between
\* two consecutive invocations (sleeps = invocations - 1, none before the
\* first or after the last) and logs its label once before each invocation
\* other than the first.
C17_RetryPacing_Original ==
  \A st \in RetrySteps(trace, execFuncs) :
    Paced(Pacing(trace, st), execFuncs[st].f.stage, TRUE)

\* C17 amended: the same, the label being logged only if it is not empty:
\* a Retry step with an empty label sleeps between invocations and logs
\* nothing.
C17_RetryPacing ==
  \A st \in RetrySteps(trace, execFuncs) :
    LET seg == Pacing(trace, st)
        calls == Len(CallsOf(trace, st))
        sleeps == Len(SelectSeq(seg, LAMBDA e : e.type = "sleep"))
        logs == Len(SelectSeq(seg, LAMBDA e : e.type = "log"))
    IN /\ Paced(seg, execFuncs[st].f.stage, execFuncs[st].f.stage # "")
       /\ sleeps = calls - 1
       /\ logs = IF execFuncs[st].f.stage # "" THEN calls - 1 ELSE 0

\* C17 witness: a Retry step with label "R" and one with an empty label have
\* each retried
C17_Witness ==
  /\ Done
  /\ \E a, b \in RetrySteps(trace, execFuncs) :
       /\ execFuncs[a].f.stage = "R"
       /\ execFuncs[b].f.stage = ""
       /\ Len(CallsOf(trace, a)) >= 2
       /\ Len(CallsOf(trace, b)) >= 3

\* C18 (building has no side effect): a step of Add, Stage, Stagef or Retry
\* appends exactly one step at the end of the chain, leaves the earlier
\* steps as they were, invokes and logs nothing and leaves last-stage
\* unchanged; nothing else changes the step list.
C18_BuildNoSideEffect ==
  /\ [][(Add \/ Stage \/ Stagef \/ Retry) =>
          /\ Len(funcs') = Len(funcs) + 1
          /\ SubSeq(funcs', 1, Len(funcs)) = funcs
          /\ trace' = trace
          /\ lastStage' = lastStage
          /\ execLastStage' = execLastStage
          /\ result' = result
          /\ pc' = pc]_vars
  /\ [][funcs' # funcs => (Add \/ Stage \/ Stagef \/ Retry)]_vars

\* C18 witness: a chain built with Stagef, Retry and Add, nothing executed
C18_Witness ==
  /\ funcs = <<cFunc(NilFunc, "AB"), cFunc(RetryFunc("R", MaxCount), ""),
               cFunc(PlainFunc, "")>>
  /\ trace = <<>>
  /\ lastStage = ""
  /\ result = NoResult

\* the fields of a step that are populated
HasOp(st) == st.f.type # "nil"
HasLabel(st) == st.s # ""

\* Exec is about to handle the step at idx
AtStep == pc = "exec" /\ idx <= Len(execFuncs)

\* the operations Exec has invoked
Invoked(tr) == Len(EventsOf(tr, "op"))

\* C24 as stated (step well-formedness): every step of the chain has
\* exactly one of its two fields populated; Exec invokes a step that holds
\* an operation, and a stage marker sets last-stage to its label.
C24_WellFormed_Original ==
  /\ [](\A k \in 1..Len(funcs) : HasOp(funcs[k]) # HasLabel(funcs[k]))
  /\ [][AtStep =>
          IF HasOp(execFuncs[idx])
            THEN Invoked(trace') = Invoked(trace) + 1
                 /\ execLastStage' = execLastStage
            ELSE Invoked(trace') = Invoked(trace)
                 /\ execLastStage' = execFuncs[idx].s]_vars

\* C24 amended: every step has at most one of its two fields populated, a
\* step of Add or Retry the operation and a step of Stage or Stagef the
\* label, which may be empty; Exec invokes a step that holds an operation
\* and leaves last-stage alone, and for a step without an operation it
\* invokes nothing and sets last-stage to the label if the label is not
\* empty.
C24_WellFormed ==
  /\ [](\A k \in 1..Len(funcs) : ~(HasOp(funcs[k]) /\ HasLabel(funcs[k])))
  /\ [][AtStep =>
          IF HasOp(execFuncs[idx])
            THEN Invoked(trace') = Invoked(trace) + 1
                 /\ trace'[Len(trace) + 1] = Event("op", idx, 0, TRUE, "")
                 /\ execLastStage' = execLastStage
            ELSE Invoked(trace') = Invoked(trace)
                 /\ execLastStage' = IF HasLabel(execFuncs[idx])
                                       THEN execFuncs[idx].s
                                       ELSE execLastStage]_vars

\* C24 witness: Stage("A"), a step with neither field populated and an
\* operation were executed; the last stage is still 'A'
C24_Witness ==
  /\ Done
  /\ execFuncs = <<cFunc(NilFunc, "A"), cFunc(NilFunc, ""), cFunc(PlainFunc, "")>>
  /\ execLastStage = "A"
  /\ Invoked(trace) = 1
  /\ result = Returned(FALSE, "", NoErr)

\* C25 (chains are isolated): Init gives the caller an object that did not
\* exist before, with no steps and no last stage; an Exec invokes only
\* closures that its caller added; and whatever the other caller did in
\* between, an Exec invokes and returns what an Exec of the caller's own
\* steps alone does.
C25_Isolated ==
  /\ [][\A c \in Callers :
          InitChain(c) =>
            /\ handle'[c] \notin (DOMAIN heap) \cup {0}
            /\ heap'[handle'[c]] = NewActiveChain
            /\ \A k \in DOMAIN heap : heap'[k] = heap[k]]_vars
  /\ [](\A c \in Callers :
          \A k \in 1..Len(ran[c].ops) : ran[c].ops[k].owner = c)
  /\ [][\A c \in Callers :
          ExecOn(c) => ran'[c] = ExecAll(added[c], "", <<>>)]_vars

\* C25 witness: both callers filled and executed their chain, the other
\* caller's calls in between: one failed at 'A', the other ran two operations
C25_Witness ==
  /\ Len(heap) = 2
  /\ added["a"] = <<cFunc(NilFunc, "A"), cFunc(OpOf("a", 2, FALSE), "")>>
  /\ added["b"] = <<cFunc(OpOf("b", 1, TRUE), ""), cFunc(OpOf("b", 2, TRUE), "")>>
  /\ ran["a"].result = Returned(TRUE, "A", ErrOf(2, 1))
  /\ Len(ran["b"].ops) = 2
  /\ ran["b"].result = Returned(FALSE, "", NoErr)

\* C26 (Exec leaves the chain unchanged): no step of an Exec changes the
\* step list or the stored last-stage label, which stays empty; an Exec
\* starts at the first step of the chain with no stage entered, also when
\* an earlier Exec of the chain has entered a stage, and then an operation
\* that fails before any labelled stage marker is returned raw.
C26_ExecLeavesChain ==
  /\ [][(pc # "idle" \/ pc' # "idle") =>
          (funcs' = funcs /\ lastStage' = lastStage)]_vars
  /\ [](lastStage = "")
  /\ [][(pc = "idle" /\ pc' = "exec") =>
          /\ execFuncs' = funcs
          /\ idx' = 1
          /\ execLastStage' = ""
          /\ trace' = <<>>]_vars
  /\ [](staged /\ Done /\ result.err # NoErr
          /\ LabelledStagesBefore(execFuncs, result.err.step) = {}
        => result = Returned(FALSE, "", result.err))

\* C26 witness: the first Exec entered 'A' after the first operation; in the
\* second Exec that operation failed and its error was returned raw
C26_Witness ==
  /\ staged
  /\ Done
  /\ funcs = <<cFunc(PlainFunc, ""), cFunc(NilFunc, "A"), cFunc(PlainFunc, "")>>
  /\ execFuncs = funcs
  /\ result = Returned(FALSE, "", ErrOf(1, 1))
  /\ Invoked(trace) = 1

\* the Retry steps that Exec has reached
RetryStarted(tr, fs) ==
  {st \in 1..Len(fs) :
     fs[st].f.type = "retry" /\ \E p \in 1..Len(tr) :
                                  tr[p].type = "op" /\ tr[p].step = st}

\* C27 (Retry with a non-positive count): a Retry step that Exec has reached
\* has invoked its function at least once, first with attempt number 1; if
\* its count is <= 0 it has invoked it exactly once, has not slept or logged
\* its label, is not about to loop, and what it returned is the result of
\* that one invocation.
C27_RetryNonPositive ==
  \A st \in RetryStarted(trace, execFuncs) :
    LET cs == CallsOf(trace, st)
        rets == SelectSeq(trace, LAMBDA e : e.type = "ret" /\ e.step = st)
    IN /\ Len(cs) >= 1
       /\ cs[1].n = 1
       /\ execFuncs[st].f.count <= 0 =>
            /\ Len(cs) = 1
            /\ Pacing(trace, st) = cs
            /\ (pc = "retry" /\ idx = st) =>
                 ~LoopCond(i, execFuncs[st].f.count, err)
            /\ \A k \in 1..Len(rets) :
                 /\ rets[k].ok = cs[1].ok
                 /\ rets[k].n = IF cs[1].ok THEN 0 ELSE 1

\* C27 witness: Retry("R", interval, 0, op) with a failing op: one
\* invocation, no log, no sleep, its error returned
C27_Witness ==
  /\ Done
  /\ execFuncs = <<cFunc(RetryFunc("R", 0), "")>>
  /\ Len(CallsOf(trace, 1)) = 1
  /\ EventsOf(trace, "sleep") = <<>>
  /\ EventsOf(trace, "log") = <<>>
  /\ result = Returned(FALSE, "", ErrOf(1, 1))

\* the operations the running Exec has seen return nil
Succeeded(tr) == {tr[p].step : p \in {q \in 1..Len(tr) : tr[q].type = "ret" /\ tr[q].ok}}

\* C28 (Provision persists its configuration only on success): the stored
\* kubernetes config changes only in a step of Provision's Exec at the last
\* step of the chain, when every operation before it has returned nil, and
\* becomes the config being provisioned; when Provision returned the error
\* of an earlier step the stored config is what it was before the call and
\* that error was returned; when the runtime was running Provision returned
\* nil with no step appended or executed and the store as it was.
C28_PersistOnSuccess ==
  /\ [][guestStore'.config # guestStore.config =>
          /\ k8sPc = "Provision"
          /\ pc = "exec"
          /\ idx = Len(execFuncs)
          /\ OpSteps(execFuncs) = OpSteps(SubSeq(execFuncs, 1, idx - 1)) \o <<idx>>
          /\ \A k \in 1..(idx - 1) :
               HasOp(execFuncs[k]) => k \in Succeeded(trace)
          /\ guestStore'.config = k8sIn.conf]_vars
  /\ [](k8sRet.call = "Provision" /\ k8sIn.call = "Provision" /\ k8sPc = "idle" =>
          /\ (~k8sIn.running /\ EventsOf(trace, "ret") # <<>>) =>
               LET rets == EventsOf(trace, "ret")
                   last == rets[Len(rets)]
               IN /\ ~last.ok => k8sRet.result.err = ErrOf(last.step, last.n)
                  /\ (~last.ok /\ last.step < Len(execFuncs)) =>
                       guestStore.config = k8sIn.before.config
          /\ k8sIn.running =>
               /\ k8sRet.result = Returned(FALSE, "", NoErr)
               /\ funcs = <<>>
               /\ trace = <<>>
               /\ guestStore = k8sIn.before)

\* C28 witness: a Provision that changed the version: the docker retry
\* succeeded at its second probe and the config was written last
C28_Witness ==
  /\ k8sRet.call = "Provision"
  /\ k8sPc = "idle"
  /\ k8sRet.result = Returned(FALSE, "", NoErr)
  /\ k8sIn.before.config = DefaultVersion
  /\ guestStore.config = "v1.24.3+k3s1"
  /\ Len(EventsOf(trace, "call")) = 2
  /\ execFuncs[1].s = "version changed to v1.24.3+k3s1, downloading and installing"

\* the commands of the operations of fs, in chain order
RECURSIVE Commands(_)
Commands(fs) ==
  IF fs = <<>> THEN <<>>
  ELSE IF Head(fs).f.type \in {"plain", "set"}
    THEN <<Head(fs).f.cmd>> \o Commands(Tail(fs))
  ELSE Commands(Tail(fs))

\* Start has returned to its caller
StartDone == k8sPc = "idle" /\ k8sIn.call = "Start" /\ k8sRet.call = "Start"

\* C29 (the master address is recorded only after full success): the stored
\* master address changes only in the last step of the chain of
\* provisionKubeconfig, after the three unset steps, mkdir, fetch, merge,
\* backup/copy and use-context have all returned nil, and becomes the
\* address of the VM; when a step failed the stored address is what it was,
\* which differs from the address of the VM, so that the next call is not
\* skipped and, where it executes, starts the whole sequence at its first
\* step; when the call succeeded the stored address is the address of the
\* VM, and a call that finds the two equal returns nil with no chain built
\* and nothing executed.
C29_MasterAfterSuccess ==
  /\ [][guestStore'.master # guestStore.master =>
          /\ k8sPc = "Kubeconfig"
          /\ pc = "exec"
          /\ idx = Len(execFuncs)
          /\ Commands(SubSeq(execFuncs, 1, idx - 1)) =
               <<"kubectl config unset users", "kubectl config unset contexts",
                 "kubectl config unset clusters", "mkdir", "fetch", "merge",
                 "cp", "kubectl config use-context">>
          /\ \A k \in 1..(idx - 1) :
               HasOp(execFuncs[k]) => k \in Succeeded(trace)
          /\ guestStore'.master = vmIP]_vars
  /\ [](StartDone /\ k8sIn.kube = "exec" =>
          IF k8sRet.result.err # NoErr
            THEN /\ guestStore.master = k8sIn.before.master
                 /\ guestStore.master # k8sIn.ip
            ELSE guestStore.master = k8sIn.ip)
  /\ [][(k8sPc = "Start" /\ k8sPc' # "Start") =>
          IF result.err = NoErr /\ guestStore.master # vmIP
            THEN \/ /\ k8sPc' = "Kubeconfig"
                    /\ execFuncs' = KubeconfigChain(vmIP)
                    /\ idx' = 1
                    /\ trace' = <<>>
                 \/ k8sRet'.result.err = HomeError
            ELSE k8sPc' = "idle"]_vars
  /\ [][(k8sPc = "Start" /\ result.err = NoErr /\ guestStore.master = vmIP
           /\ k8sPc' # "Start") =>
          /\ k8sRet'.result = Returned(FALSE, "", NoErr)
          /\ k8sPc' = "idle"
          /\ UNCHANGED <<chainVars, guestStore>>]_vars

\* C29 witness: after a call that failed at the merge and one that
\* succeeded, a further Start with the same address skipped the sequence
C29_Witness ==
  /\ StartDone
  /\ k8sIn.kube = "same"
  /\ guestStore.master = vmIP
  /\ k8sRet.result = Returned(FALSE, "", NoErr)
  /\ execFuncs = StartChain

\* C30 (Start ordering): a Start that found the runtime running returned nil
\* with no step appended or executed and no kubeconfig provisioning; in the
\* chain of Start every cluster-info probe comes after 'service k3s start'
\* has returned nil; provisionKubeconfig is entered only when Exec has
\* returned nil with both operations succeeded; and a Start whose chain
\* failed returned "error at 'starting': ..." with the kubeconfig of the
\* host and the stored settings as they were.
C30_StartOrdering ==
  /\ [](StartDone /\ k8sIn.running =>
          /\ k8sRet.result = Returned(FALSE, "", NoErr)
          /\ funcs = <<>>
          /\ trace = <<>>
          /\ k8sIn.kube = ""
          /\ guestStore = k8sIn.before)
  /\ [](k8sPc = "Start" =>
          \A p \in 1..Len(trace) :
            trace[p].type = "call" =>
              \E q \in 1..(p - 1) :
                /\ trace[q].type = "ret"
                /\ trace[q].ok
                /\ execFuncs[trace[q].step].f = Cmd("service k3s start"))
  /\ [][(k8sIn.kube = "" /\ k8sIn'.kube # "") =>
          /\ k8sPc = "Start"
          /\ result = Returned(FALSE, "", NoErr)
          /\ \A k \in 1..Len(execFuncs) :
               HasOp(execFuncs[k]) => k \in Succeeded(trace)]_vars
  /\ [](StartDone /\ ~k8sIn.running /\ k8sIn.kube = "" =>
          /\ k8sRet.result.wrapped
          /\ k8sRet.result.stage = "starting"
          /\ k8sRet.result.err # NoErr
          /\ EventsOf(trace, "ret")[Len(EventsOf(trace, "ret"))] =
               Event("ret", k8sRet.result.err.step, k8sRet.result.err.n, FALSE, "")
          /\ guestStore = k8sIn.before)

\* C30 witness: the service started, the probe failed eleven times, and
\* Start returned the error of the last probe tagged 'starting'
C30_Witness ==
  /\ StartDone
  /\ ~k8sIn.running
  /\ k8sIn.kube = ""
  /\ k8sRet.result = Returned(TRUE, "starting", ErrOf(3, 11))
  /\ Len(EventsOf(trace, "call")) = 11

\* C31 (unchanged start flags keep the current configuration): when PreRunE
\* has run and a current configuration was loaded, or else a template,
\* every setting whose flag was not given has the value of that
\* configuration in startCmdArgs, and so in the file that is saved; a
\* setting whose flag was given has the value given with the flag.
C31_UnchangedFlagsKeep ==
  [][(startPc = "parsed" /\ startPc' # "parsed") =>
       LET loaded == IF startLog'[1].ok THEN configFile ELSE NoConfig
           exists == \/ loaded # NoConfig
                     \/ startLog'[2] = [op |-> "PreRunE.LoadFrom", ok |-> TRUE]
           current == IF loaded # NoConfig THEN loaded ELSE Template
           flagged == (CommonFlags \cup {"mount"})
                        \cup (IF cmd.macOS
                                THEN {"network-address", "network-driver"}
                                ELSE {})
           legacy == "with-kubernetes" \in cmd.changed
       IN \A f \in flagged :
            IF f \in cmd.changed \/ (f = "kubernetes" /\ legacy)
              THEN startCmdArgs'.Config[f] =
                     (IF f = "kubernetes" /\ legacy THEN "legacy"
                      ELSE IF f = "mount"
                        THEN <<[Location |-> "/src", Writable |-> TRUE]>>
                      ELSE "flag")
              ELSE exists => /\ startCmdArgs'.Config[f] = current[f]
                             /\ startPc' = "ready" => configFile'[f] = current[f]]_vars

\* C32 (the start command never starts an active instance): RunE without
\* --edit that finds the app active returns nil and calls neither Stop nor
\* Start; app.Start is called only when the app is not active; no call of
\* app.Start follows a failed edit, a failed load, a declined prompt or a
\* failed Stop of the same command; and with --edit a call of app.Start
\* that follows an active check answered true follows it through a
\* confirmed prompt and then an app.Stop that returned nil.
C32_NeverStartsActive ==
  /\ [][(startPc = "ready" /\ ~startCmdArgs.Edit /\ app.active) =>
          /\ startPc' = "idle"
          /\ startRet' = "nil"
          /\ app' = app
          /\ \A p \in 1..Len(startLog') :
               startLog'[p].op \notin {"Start", "Stop"}]_vars
  /\ [][(startLog' # startLog /\ startLog' # <<>>
           /\ startLog'[Len(startLog')].op = "Start") => ~app.active]_vars
  /\ [](\A p \in 1..Len(startLog) :
          startLog[p].op = "Start" =>
            /\ \A q \in 1..(p - 1) :
                 startLog[q].op \in {"editConfigFile", "Load", "Prompt", "Stop"}
                   => startLog[q].ok
            /\ \A q \in 1..(p - 1) :
                 (startCmdArgs.Edit /\ startLog[q] = [op |-> "Active", ok |-> TRUE])
                   => /\ q + 4 = p
                      /\ startLog[q + 1] = [op |-> "Prompt", ok |-> TRUE]
                      /\ startLog[q + 2] = [op |-> "Stop", ok |-> TRUE]
                      /\ startLog[q + 3].op = "Sleep")

\* C32 witness: colima start --edit on an active app: the user confirmed,
\* app.Stop returned nil and app.Start was called
C32_Witness ==
  /\ startPc = "idle"
  /\ startCmdArgs.Edit
  /\ startRet = "nil"
  /\ app.active
  /\ Len(startLog) >= 5
  /\ SubSeq(startLog, Len(startLog) - 4, Len(startLog)) =
       <<[op |-> "Active", ok |-> TRUE], [op |-> "Prompt", ok |-> TRUE],
         [op |-> "Stop", ok |-> TRUE], [op |-> "Sleep", ok |-> TRUE],
         [op |-> "Start", ok |-> TRUE]>>

(* ------------------------------ daemon properties ---------------------- *)
Stopped == pcRun = "returned"

C6_UnderlyingError ==
  (Stopped /\ branch = "done" /\ selErr \in {"accept_err", "bridge_err"}
     /\ ~ctxDone) => runResult = selErr

C8_StaleSocket ==
  /\ pcRun \in {"conf", "listen"} => ~sockFile
  /\ runResult = "remove_existing_err" =>
       /\ Stopped
       /\ listener = "none"
       /\ accPc = "none"
       /\ sockFile

\* C8 witness: the removal of a stale socket file failed
C8_Witness ==
  /\ runResult = "remove_existing_err"
  /\ sockFile
  /\ Stopped

PreBindErrors == {"remove_existing_err", "vn_err", "listen_err"}

\* C9 (daemon state machine): every step keeps the daemon state or moves it
\* along NotStarted -> Listening -> Bridging -> Stopped, Listening ->
\* Stopped, or NotStarted -> Stopped with a pre-bind error; Bridging is
\* entered only from Listening with the listener open; no step leaves
\* Stopped; Stopped is reached from Listening or Bridging only after the
\* select saw the cancellation or received the acceptor's outcome.
C9_StateMachine ==
  [][LET s == DaemonState
         t == DaemonState'
     IN /\ s # t =>
             <<s, t>> \in {<<"NotStarted", "Listening">>,
                           <<"Listening", "Bridging">>,
                           <<"Bridging", "Stopped">>,
                           <<"Listening", "Stopped">>,
                           <<"NotStarted", "Stopped">>}
        /\ s = "Stopped" => t = "Stopped"
        /\ (s # "Bridging" /\ t = "Bridging") =>
             (s = "Listening" /\ listener = "open")
        /\ (s = "NotStarted" /\ t = "Stopped") => runResult' \in PreBindErrors
        /\ (s \in {"Listening", "Bridging"} /\ t = "Stopped") =>
             \/ branch = "cancel" /\ ctxDone
             \/ branch = "done" /\ selErr \in {"nil", "accept_err", "bridge_err"}
    ]_vars

\* C9 witness: the daemon stopped from Bridging after a bridging outcome
C9_Witness ==
  /\ Stopped
  /\ branch = "done"
  /\ selErr = "bridge_err"
  /\ listener = "closed"

Accepted == connects - backlog

\* C11 (exactly one guest connection): Accept returns at most once during a
\* Start call, a connection or an error and never both, so at most one
\* client connection is ever accepted; no step accepts a client once the
\* daemon is Bridging (the backlog of waiting clients never shrinks then).
C11_OneConnection ==
  /\ [](Accepted <= 1)
  /\ [](Accepted = 1 => accOut # "accept_err")
  /\ [][DaemonState = "Bridging" => backlog' >= backlog]_vars

\* C11 witness: a second client connected while the daemon was Bridging and
\* is still waiting after Start returned
C11_Witness ==
  /\ Accepted = 1
  /\ backlog = 1
  /\ connects = 2
  /\ Stopped

\* C12 (Alive correctness): every call of Alive returns nil exactly when the
\* daemon is Listening or Bridging at that moment; in particular it returns
\* an error when only a stale socket file is on disk.
C12_AliveCorrect ==
  [][Alive => (aliveResult' = "nil" <=> DaemonState \in {"Listening", "Bridging"})]_vars

\* C13 (Alive has no side effects): a call of Alive changes nothing but its
\* own return value: not the socket file, the listener, the daemon's
\* position, nor the process-wide MAC cache.
C13_AliveNoSideEffect ==
  [][Alive => UNCHANGED <<sockFile, macAddress, ctxDone, pcRun, listener, done,
                          selErr, branch, runResult, acceptorVars, cancelEarly,
                          infoMac, confLease, otherListening, otherFile,
                          auxVars, chainVars>>]_vars

\* the derived address: 5a:94:ef and the first three bytes of the hash
DerivedMac == baseHWAddr \o SubSeq(DirSum, 1, 3)

\* C14 (MAC cache under concurrent first access): whatever the interleaving
\* of the threads calling MacAddress(), every call returned the derived
\* 6-byte address, the cache never holds more than 6 bytes, and no thread
\* is about to read a cache that is only partly built.
C14_MacConcurrent ==
  /\ \A t \in Threads : macRet[t] # <<>> => macRet[t] = String(DerivedMac)
  /\ Len(macAddress) <= 6
  /\ \A t \in Threads : macPc[t] = "return" => macAddress = DerivedMac

\* C15 (MAC determinism): once Start has called Info(), a further call of
\* MacAddress() returns the same text as that one; the address leased to
\* 192.168.107.2 in the configuration run builds equals Info().MacAddress.
C15_MacDeterminism ==
  /\ pcRun # "idle" => (infoMac # <<>> /\ String(MacAddressCached(macAddress)) = infoMac)
  /\ confLease # <<>> => confLease = infoMac

\* C15 witness: run has built its configuration with the leased address
C15_Witness ==
  /\ pcRun = "listen"
  /\ confLease = String(DerivedMac)
  /\ infoMac = confLease

\* C19 (single owner of the control socket): while another instance is
\* listening on the socket path, the file it bound is still on disk (this
\* instance's Start has not removed or unbound it), and the two instances
\* are never listening on the path at the same time.
C19_SingleOwner ==
  /\ otherListening => otherFile
  /\ ~(otherListening /\ listener = "open")

\* C20 (socket view consistency): for the path P a Socket was made from,
\* Socket(P).File() = P, Socket(P).Unix() = "unix://" + P and
\* Socket("unix://" + P).File() = P; the two views of the Socket at hand
\* denote the same path, also after Socket(s.Unix()).
C20_SocketViews ==
  path # "" =>
    /\ File(path) = path
    /\ Unix(path) = "unix://" \o path
    /\ File("unix://" \o path) = path
    /\ File(Unix(socket)) = File(socket)
    /\ views.file = path
    /\ views.unix = "unix://" \o path

\* C20 witness: a Socket made from the URI of a path that begins with
\* "unix:/", rewrapped
C20_Witness ==
  /\ path = "unix:/run/gvproxy.sock"
  /\ socket = "unix://unix:/run/gvproxy.sock"
  /\ views = [file |-> "unix:/run/gvproxy.sock",
              unix |-> "unix://unix:/run/gvproxy.sock"]

\* the search directives of a resolver configuration, in file order
SearchLines(ls) == SelectSeq(ls, LAMBDA n : ResolvLines[n].search)

\* C21 (search-domain parsing): searchDomains returns the domains of the
\* first line that begins with "search ", later such lines being ignored,
\* and the empty list when there is no such line, the file cannot be read
\* or the platform is neither darwin nor linux; it returns a list in every
\* case.
C21_SearchDomains ==
  goos # "" =>
    LET found == SearchLines(resolvConf.lines) IN
      /\ domains \in Seq({"foo.local", "bar.local", "corp.example"})
      /\ domains =
           IF goos \in {"darwin", "linux"} /\ resolvConf.ok /\ found # <<>>
             THEN ResolvLines[found[1]].domains
             ELSE <<>>

\* C21 witness: a file with two search lines, the first one was taken
C21_Witness ==
  /\ goos = "linux"
  /\ resolvConf.ok
  /\ resolvConf.lines = <<4, 1>>
  /\ resolvConf.content = "nameserver 192.168.5.3\nsearch foo.local bar.local"
  /\ domains = <<"foo.local", "bar.local">>

\* C22 (cleanup on every exit after binding): once the listener was bound,
\* Start returns only from its cleanup, with the listener closed before, and
\* the cleanup removes the socket file if it is still there or returns the
\* removal error; the listener is closed only by run's Close after the
\* select; whenever Start has returned nil no socket file is left and the
\* listener is closed.
C22_CleanupOnExit ==
  /\ [][(pcRun # "returned" /\ pcRun' = "returned" /\ listener # "none") =>
          /\ pcRun = "cleanup"
          /\ listener = "closed"
          /\ branch \in {"cancel", "done"}
          /\ sockFile => (~sockFile' \/ runResult' = "remove_err")]_vars
  /\ [][(listener = "open" /\ listener' # "open") =>
          (pcRun = "close" /\ pcRun' = "cleanup" /\ listener' = "closed")]_vars
  /\ [](Stopped /\ runResult = "nil" => ~sockFile /\ listener = "closed")

\* C22 witness: Start returned nil after an Accept error, the uncancelled
\* listener closed and the file removed
C22_Witness ==
  /\ Stopped
  /\ ~ctxDone
  /\ branch = "done"
  /\ selErr = "accept_err"
  /\ runResult = "nil"
  /\ listener = "closed"
  /\ ~sockFile

\* C23 (initialization failure never reaches Listening): when Start returned
\* the error of the network stack's construction or of the bind, it is
\* stopped, no listener exists, no acceptor was started, nothing was
\* reported and no socket file was created; these errors are returned from
\* NotStarted only.
C23_InitFailure ==
  /\ [](runResult \in {"vn_err", "listen_err"} =>
          /\ Stopped
          /\ listener = "none"
          /\ accPc = "none"
          /\ reports = 0
          /\ ~sockFile)
  /\ [][(runResult' \in {"vn_err", "listen_err"} /\ runResult' # runResult) =>
          (DaemonState = "NotStarted" /\ DaemonState' = "Stopped")]_vars

\* C23 witness: the bind failed after the configuration was built
C23_Witness ==
  /\ runResult = "listen_err"
  /\ confLease # <<>>
  /\ Stopped
  /\ listener = "none"
  /\ accPc = "none"

(* ------------------------------ specification -------------------------- *)
NextChain ==
  \/ Add
  \/ Stage
  \/ Stagef
  \/ Retry
  \/ ExecBegin
  \/ ExecStage
  \/ ExecOp
  \/ ExecReturn
  \/ RetryFirst
  \/ RetryLoop
  \/ RetryReturn

\* the command chain alone
Init == ChainInit /\ DaemonInit /\ AuxInit /\ NoOther /\ sockFile = FALSE

Next == NextChain

Spec == Init /\ [][Next]_vars

RunMain ==
  \/ RunRemoveStale
  \/ RunConf
  \/ RunListen
  \/ RunSpawn
  \/ RunSelectCancel
  \/ RunSelectDone
  \/ RunClose
  \/ RunCleanup

NextDaemon ==
  \/ Start
  \/ RunMain
  \/ AccAcceptConn
  \/ AccAcceptErr
  \/ AccBridgeReturn
  \/ AccSend
  \/ Cancel
  \/ ClientConnect
  \/ Alive

\* the daemon alone; a socket file of an earlier run may exist
InitDaemon == ChainInit /\ DaemonInit /\ AuxInit /\ NoOther /\ sockFile \in BOOLEAN

SpecDaemon == InitDaemon /\ [][NextDaemon]_vars

\* the goroutines are scheduled; Accept returns once the listener is closed;
\* AcceptQemu returns once its context is cancelled
FairSpecDaemon ==
  /\ SpecDaemon
  /\ WF_vars(RunMain)
  /\ WF_vars(AccSend)
  /\ WF_vars(AccAcceptErr /\ listener = "closed")
  /\ WF_vars(AccBridgeReturn /\ ctxDone)

NextMac ==
  \E t \in Threads :
    \/ MacCheck(t)
    \/ MacAppendBase(t)
    \/ MacAppendSum(t)
    \/ MacReturn(t)

\* threads of one process calling MacAddress(), with no synchronization
SpecMac == Init /\ [][NextMac]_vars

NextOverlap ==
  \/ NextDaemon
  \/ OtherStop

\* Start called while another instance is listening on the same socket path
InitOverlap ==
  /\ ChainInit /\ DaemonInit /\ AuxInit
  /\ otherListening = TRUE
  /\ otherFile = TRUE
  /\ sockFile = TRUE

SpecOverlap == InitOverlap /\ [][NextOverlap]_vars

NextSocket ==
  \/ SocketOfPath
  \/ SocketOfUnix

\* Socket values and their two views
SpecSocket == Init /\ [][NextSocket]_vars

\* calls of searchDomains on the files and platforms of the input sets
SpecResolv == Init /\ [][searchDomains]_vars

NextChains ==
  \E c \in Callers :
    \/ InitChain(c)
    \/ AddTo(c)
    \/ StageTo(c)
    \/ ExecOn(c)

\* two callers of one Named Chain, their calls interleaved
SpecChains == Init /\ [][NextChains]_vars

\* the Exec of a chain that a kubernetes runtime call has built
ExecSteps ==
  \/ ExecStage
  \/ ExecOp
  \/ ExecSet
  \/ ExecReturn
  \/ RetryFirst
  \/ RetryLoop
  \/ RetryReturn

NextK8s ==
  \/ ProvisionCall
  \/ ProvisionReturn
  \/ StartCall
  \/ StartReturn
  \/ StartKubeconfig
  \/ KubeconfigReturn
  \/ VmAddress
  \/ ExecSteps

\* calls of the kubernetes runtime, one at a time
SpecK8s == Init /\ [][NextK8s]_vars

NextPrepare ==
  \/ ParseFlags
  \/ PreRunE
  \/ RunStart
  \/ RunAppStart

\* start commands with setting flags, one after the other
SpecPrepare == Init /\ [][NextPrepare]_vars

NextStart ==
  \/ StartArgs
  \/ PreRunE
  \/ RunStart
  \/ RunEdit
  \/ RunLoad
  \/ RunPrompt
  \/ RunStop
  \/ RunAppStart

\* start commands with and without --edit, one after the other
SpecStart == Init /\ [][NextStart]_vars

====
